---------------------------- MODULE Spec2Model ----------------------------
(***************************************************************************)
(* A model of the photo appendix builder (src/main.py): the size estimator *)
(* estimate_docx_size_bytes, the auto-tuner auto_tune_compression, the     *)
(* sort key natural_sort_key_string and the parts of main_orchestrator     *)
(* that select the images, choose the compression settings and prepare the *)
(* images; and of the two photo number normalizations of                   *)
(* src/move_photos.py and src/extract_photo_nrs.py.                        *)
(*                                                                         *)
(* The JPEG encoder (compress_image_to_jpeg_bytes) is an external          *)
(* collaborator: every call of it either raises or returns some number of  *)
(* bytes, chosen nondeterministically.                                     *)
(***************************************************************************)
EXTENDS Integers, Sequences, FiniteSets, TLC

---------------------------------------------------------------------------
(* Program constants, src/main.py lines 39-56.                             *)

TARGET_DOCX_SIZE_BYTES == 20971520

DOCX_OVERHEAD_BYTES == 1500000

QUALITY_MIN == 30

QUALITY_MAX == 90

MAX_DIM_MIN == 800

MAX_DIM_MAX == 2400

QUALITY_STEP == 5

MAX_DIM_STEP == 200

ESTIMATE_SAMPLE_MAX == 6

\* The flat penalty of the estimate when no sampled image encodes (line 232).
ALL_FAILED_PENALTY == 10000000

\* main_orchestrator's starting point of the tuning (lines 505-506).
MAIN_START_QUALITY == 50

MAIN_START_MAX_DIM == 1400

\* The range simpledialog.askinteger accepts for the quality (line 512).
MANUAL_QUALITY_LOW == 1

MANUAL_QUALITY_HIGH == 100

---------------------------------------------------------------------------
(* Bounds of the model.                                                    *)

\* The longest image sequence handed to the estimator on its own.
MaxImages == 7

\* The longest image sequence handed to the tuner and the orchestrator.
MaxTuneImages == 1

\* How many steps below the floor and above the ceiling a start value may lie.
StartSlack == 1

---------------------------------------------------------------------------
(* Values and helpers.                                                     *)

Min(a, b) == IF a <= b THEN a ELSE b

Max(a, b) == IF a >= b THEN a ELSE b

RECURSIVE SumSeq(_)
SumSeq(s) == IF s = <<>> THEN 0 ELSE Head(s) + SumSeq(Tail(s))

\* An image is a path with the size of its file: [id |-> position, size |-> st_size].
\* Two file sizes give both ties and strict differences between images.
SourceSizes == {1, 2}

MkPaths(f) == [i \in DOMAIN f |-> [id |-> i, size |-> f[i]]]

PathLists(n) == {MkPaths(f) : f \in UNION {[1..k -> SourceSizes] : k \in 0..n}}

\* The image sequences of the tuner and the orchestrator: below the sample
\* maximum the file sizes do not matter to the estimate, so all are equal.
EqualPathLists(n) == {MkPaths([i \in 1..k |-> 1]) : k \in 0..n}

\* What one call of the encoder does: it raises (<<>>) or returns b bytes (<<b>>).
\* Two encoded lengths suffice: a small one, and one so large that a single
\* image of that size exceeds the 20 MiB target.
EncodedSizes == {1, TARGET_DOCX_SIZE_BYTES}

EncodeRaised == <<>>

EncodeOutcomes == {EncodeRaised} \cup {<<b>> : b \in EncodedSizes}

---------------------------------------------------------------------------
(* estimate_docx_size_bytes, src/main.py lines 200-236.                    *)

\* sorted(image_paths, key=st_size, reverse=True): a stable sort, so images of
\* equal size keep their order. InsertBySize puts p behind every element that
\* is at least as large.
RECURSIVE InsertBySize(_, _)
InsertBySize(s, p) ==
    IF s = <<>> THEN <<p>>
    ELSE IF Head(s).size >= p.size THEN <<Head(s)>> \o InsertBySize(Tail(s), p)
    ELSE <<p>> \o s

RECURSIVE SortedBySizeFrom(_, _)
SortedBySizeFrom(acc, rest) ==
    IF rest = <<>> THEN acc
    ELSE SortedBySizeFrom(InsertBySize(acc, Head(rest)), Tail(rest))

SortedBySize(paths) == SortedBySizeFrom(<<>>, paths)

\* The sample taken without sorting: the first images of the sequence.
SampleUnsorted(paths) == SubSeq(paths, 1, Min(ESTIMATE_SAMPLE_MAX, Len(paths)))

\* Lines 220-221: the min(sample_max, N) largest images.
SampleOf(paths) ==
    SubSeq(SortedBySize(paths), 1, Min(ESTIMATE_SAMPLE_MAX, Len(paths)))

\* The except branch of lines 228-229 counting a failed image as zero bytes.
RECURSIVE CompressedSizesZeroForFailed(_)
CompressedSizesZeroForFailed(enc) ==
    IF enc = <<>> THEN <<>>
    ELSE IF Head(enc) = EncodeRaised THEN <<0>> \o CompressedSizesZeroForFailed(Tail(enc))
    ELSE <<Head(enc)[1]>> \o CompressedSizesZeroForFailed(Tail(enc))

\* Lines 223-229: the encoded lengths of the sampled images that encoded, in
\* sample order; enc[i] is the outcome of encoding the i-th sampled image.
RECURSIVE CompressedSizesOf(_)
CompressedSizesOf(enc) ==
    IF enc = <<>> THEN <<>>
    ELSE IF Head(enc) = EncodeRaised THEN CompressedSizesOf(Tail(enc))
    ELSE <<Head(enc)[1]>> \o CompressedSizesOf(Tail(enc))

\* The estimate with the penalty of line 232 left out.
EstimateFallbackOverheadOnly(paths, enc) ==
    LET sizes == CompressedSizesOf(enc)
    IN  IF paths = <<>> THEN DOCX_OVERHEAD_BYTES
        ELSE IF sizes = <<>> THEN DOCX_OVERHEAD_BYTES
        ELSE DOCX_OVERHEAD_BYTES + (SumSeq(sizes) * Len(paths)) \div Len(sizes)

\* The estimate with the early return of line 217 left out: an empty sequence
\* then falls through to the all-failed fallback.
EstimateNoEmptyCheck(paths, enc) ==
    LET sizes == CompressedSizesOf(enc)
    IN  IF sizes = <<>> THEN DOCX_OVERHEAD_BYTES + ALL_FAILED_PENALTY
        ELSE DOCX_OVERHEAD_BYTES + (SumSeq(sizes) * Len(paths)) \div Len(sizes)

\* The estimate extrapolated with the sample size instead of the image count.
EstimateBySampleCount(paths, enc) ==
    LET sizes == CompressedSizesOf(enc)
    IN  IF paths = <<>> THEN DOCX_OVERHEAD_BYTES
        ELSE IF sizes = <<>> THEN DOCX_OVERHEAD_BYTES + ALL_FAILED_PENALTY
        ELSE DOCX_OVERHEAD_BYTES + (SumSeq(sizes) * Len(enc)) \div Len(sizes)

\* Lines 217-236. int(overhead + (sum / float(k)) * N) is computed in double
\* precision and truncated; for the encoded lengths and image counts of this
\* model that is exactly overhead + floor(sum * N / k).
EstimateDocxSizeBytes(paths, enc) ==
    LET sizes == CompressedSizesOf(enc)
    IN  IF paths = <<>> THEN DOCX_OVERHEAD_BYTES
        ELSE IF sizes = <<>> THEN DOCX_OVERHEAD_BYTES + ALL_FAILED_PENALTY
        ELSE DOCX_OVERHEAD_BYTES + (SumSeq(sizes) * Len(paths)) \div Len(sizes)

\* The encoder outcomes one call of the estimator can meet: one per sampled
\* image, none when the sequence is empty (the early return of line 218).
EncoderRuns(paths) ==
    IF paths = <<>> THEN {<<>>}
    ELSE [1..Len(SampleOf(paths)) -> EncodeOutcomes]

---------------------------------------------------------------------------
(* The state.                                                              *)

VARIABLES
    pc,                \* where the running function stands
    caller,            \* who called the tuner: "none" or "main"
    image_paths,       \* the image sequence the estimator and the tuner work on
    start_quality,     \* auto_tune_compression's parameters
    start_max_dim,
    target_bytes,
    quality,           \* the current setting: the tuner's locals, the estimator's parameters
    max_dim,
    est,               \* the estimator's last result (the tuner's local est)
    sample,            \* the estimator's locals in its last call
    compressed_sizes,
    encoded,           \* the images the last estimator call handed to the encoder, in order
    outcomes,          \* how each of those encoder calls ended, in the same order
    calls,             \* the settings of every estimator call of the run, in order
    ret,               \* what auto_tune_compression returned: <<>> or <<quality, max_dim, est>>
    photos_for_report, \* main_orchestrator's locals
    auto_tune,
    chosen_quality,
    chosen_max_dim,
    estimated_bytes,
    prepared,
    todo,              \* the images the prepare loop has still to visit
    passed             \* every setting handed to the estimator, the encoder or the prepare step

VARIABLES
    photo_numbers,     \* move_photos.py: normalize_photo_numbers' parameter
    normalized_set,    \* and what it returned
    photo_nrs,         \* extract_photo_nrs.py: the tokens of the column's cells, in order
    all_photo_numbers, \* and the list built from them
    applied,           \* the results of the normalization calls made so far, in order
    column             \* the cells the tokens were taken from

VARIABLES
    values,            \* main.py: the list handed to sorted()
    sort_keys,         \* the key natural_sort_key_string gave for each entry
    sorted_values,     \* what sorted() returned
    sort_raised        \* whether sorted() raised instead

sortVars == <<values, sort_keys, sorted_values, sort_raised>>

VARIABLES
    all_images,          \* main_orchestrator: the supported images of the folder, as listed
    use_excel,           \* the answer to "Filter photos?"
    required_photo_list, \* what get_photo_list_from_excel returned
    sort_numeric,        \* the answer to "Photo ordering"
    ordered_stems,
    missing_stems

selVars == <<all_images, use_excel, required_photo_list, sort_numeric, ordered_stems,
             missing_stems>>

VARIABLES
    also_save_compressed, \* main_orchestrator: the answer to "Also save compressed images?"
    temp_dir,             \* the temporary directory: "none", "created" or "removed"
    temp_files,           \* the files write_prepared_jpeg_for_word wrote into it
    prepared_from,        \* for each entry of prepared, the image it was made from
    builder_calls,        \* the lists handed to create_photo_document_from_prepared_jpegs
    docx_written,         \* whether the document was saved
    compressed_saved,     \* the files save_compressed_images_from_prepared copied
    error                 \* what main_orchestrator raised: "" for nothing

finishVars == <<also_save_compressed, temp_dir, temp_files, prepared_from,
                builder_calls, docx_written, compressed_saved, error>>

VARIABLES
    report_photo_list,   \* move_photos.py, the script: the photo numbers of the report
    required_photo_set,  \* and the set normalize_photo_numbers made of them
    in_source,           \* the files of the source folder
    in_output,           \* the files of the folder not_used_in_report
    photos_to_move,      \* the images the script schedules for moving
    file_paths,          \* move_files' parameter
    next_file,           \* the position of move_files' loop in file_paths
    moved_count,         \* move_files' counters
    skipped_count,
    attempted,           \* the files the loop has visited, in order
    move_result          \* how move_files ended: "", "empty", "no_directory" or "summary"

moveVars == <<report_photo_list, required_photo_set, in_source, in_output,
              photos_to_move, file_paths, next_file, moved_count, skipped_count,
              attempted, move_result>>

textVars == <<photo_numbers, normalized_set, photo_nrs, all_photo_numbers, applied,
              column>>

\* The state of the report builder, except the position.
docVars == <<caller, image_paths, start_quality, start_max_dim, target_bytes,
             quality, max_dim, est, sample, compressed_sizes, encoded, outcomes,
             calls, ret, photos_for_report, auto_tune, chosen_quality, chosen_max_dim,
             estimated_bytes, prepared, todo, finishVars, passed>>

vars == <<pc, docVars, textVars, sortVars, selVars, moveVars>>

\* No list has been read or normalized.
TextIdle ==
    /\ photo_numbers = <<>>
    /\ normalized_set = {}
    /\ photo_nrs = <<>>
    /\ all_photo_numbers = <<>>
    /\ applied = <<>>
    /\ column = <<>>

\* Nothing has been sorted.
SortIdle ==
    /\ values = <<>>
    /\ sort_keys = <<>>
    /\ sorted_values = <<>>
    /\ sort_raised = FALSE

\* No folder has been listed.
SelectIdle ==
    /\ all_images = <<>>
    /\ use_excel = FALSE
    /\ required_photo_list = <<>>
    /\ sort_numeric = FALSE
    /\ ordered_stems = <<>>
    /\ missing_stems = <<>>

\* The prepare loop has not been set up.
FinishIdle ==
    /\ also_save_compressed = FALSE
    /\ temp_dir = "none"
    /\ temp_files = {}
    /\ prepared_from = <<>>
    /\ builder_calls = <<>>
    /\ docx_written = FALSE
    /\ compressed_saved = {}
    /\ error = ""

\* The cleanup script has not run.
MoveIdle ==
    /\ report_photo_list = <<>>
    /\ required_photo_set = {}
    /\ in_source = {}
    /\ in_output = {}
    /\ photos_to_move = <<>>
    /\ file_paths = <<>>
    /\ next_file = 0
    /\ moved_count = 0
    /\ skipped_count = 0
    /\ attempted = <<>>
    /\ move_result = ""

tunerVars == <<start_quality, start_max_dim, target_bytes, ret>>

mainVars == <<photos_for_report, auto_tune, chosen_quality, chosen_max_dim,
              estimated_bytes, prepared, todo, finishVars>>

Setting(q, d) == [quality |-> q, max_dim |-> d]

Passed(to, q, d) == [to |-> to, quality |-> q, max_dim |-> d]

\* One call estimate_docx_size_bytes(paths, q, d) whose encoder calls end as
\* enc says (lines 217-236): its locals, its result and what it handed on.
EstimatorCall(paths, q, d, enc) ==
    /\ sample' = (IF paths = <<>> THEN <<>> ELSE SampleOf(paths))
    /\ encoded' = (IF paths = <<>> THEN <<>> ELSE SampleOf(paths))
    /\ outcomes' = enc
    /\ compressed_sizes' = CompressedSizesOf(enc)
    /\ est' = EstimateDocxSizeBytes(paths, enc)
    /\ calls' = Append(calls, Setting(q, d))
    /\ passed' = passed \cup {Passed("estimator", q, d)}
                        \cup (IF paths = <<>> THEN {} ELSE {Passed("encoder", q, d)})

---------------------------------------------------------------------------
(* The estimator on its own: one call with any image sequence.             *)

EstSettings ==
    {Setting(q, MAIN_START_MAX_DIM) : q \in {MANUAL_QUALITY_LOW, MAIN_START_QUALITY}}

InitEst ==
    /\ pc = "estimate"
    /\ caller = "none"
    /\ image_paths \in PathLists(MaxImages)
    /\ \E s \in EstSettings : quality = s.quality /\ max_dim = s.max_dim
    /\ start_quality = 0 /\ start_max_dim = 0 /\ target_bytes = 0
    /\ est = 0
    /\ sample = <<>> /\ compressed_sizes = <<>> /\ encoded = <<>>
    /\ outcomes = <<>>
    /\ calls = <<>>
    /\ ret = <<>>
    /\ photos_for_report = <<>>
    /\ auto_tune = FALSE
    /\ chosen_quality = 0 /\ chosen_max_dim = 0 /\ estimated_bytes = 0
    /\ prepared = <<>> /\ todo = <<>>
    /\ FinishIdle
    /\ passed = {}
    /\ TextIdle
    /\ SortIdle
    /\ SelectIdle
    /\ MoveIdle

\* estimate_docx_size_bytes(image_paths, quality, max_dim), lines 200-236.
EstimateCall ==
    /\ pc = "estimate"
    /\ \E enc \in EncoderRuns(image_paths) :
          EstimatorCall(image_paths, quality, max_dim, enc)
    /\ pc' = "estimated"
    /\ UNCHANGED textVars
    /\ UNCHANGED sortVars
    /\ UNCHANGED moveVars
    /\ UNCHANGED selVars
    /\ UNCHANGED <<caller, image_paths, quality, max_dim>>
    /\ UNCHANGED tunerVars
    /\ UNCHANGED mainVars

NextEst == EstimateCall

SpecEst == InitEst /\ [][NextEst]_vars

---------------------------------------------------------------------------
(* auto_tune_compression, src/main.py lines 239-276.                       *)

\* The clamps with their floor left out.
ClampQualityNoFloor(q) == Min(QUALITY_MAX, q)

\* Line 258.
ClampQuality(q) == Max(QUALITY_MIN, Min(QUALITY_MAX, q))

\* Line 259.
ClampMaxDim(d) == Max(MAX_DIM_MIN, Min(MAX_DIM_MAX, d))

\* The test of line 264 made strict.
TargetMetStrict(e, t) == e < t

\* The test of line 264 with the comparison turned round.
TargetMetReversed(e, t) == e >= t

\* Line 264.
TargetMet(e, t) == e <= t

\* The test of line 267 made strict: one step above the floor is not taken.
CanLowerQualityStrict(q) == q - QUALITY_STEP > QUALITY_MIN

\* Line 267.
CanLowerQuality(q) == q - QUALITY_STEP >= QUALITY_MIN

\* The test of line 271 made strict: one step above the floor is not taken.
CanLowerMaxDimStrict(d) == d - MAX_DIM_STEP > MAX_DIM_MIN

\* Line 271.
CanLowerMaxDim(d) == d - MAX_DIM_STEP >= MAX_DIM_MIN

\* The assignment of line 268 with a step of one, and with the sign wrong.
LowerQualityByOne(q) == q - 1

RaiseQuality(q) == q + QUALITY_STEP

\* Line 268.
LowerQuality(q) == q - QUALITY_STEP

\* Line 272.
LowerMaxDim(d) == d - MAX_DIM_STEP

\* The second test reached without regard to the first (a missing continue).
DimBranchAlways(q) == TRUE

\* Lines 267-271: the max_dim branch is reached only when the quality branch
\* was not taken.
DimBranchReached(q) == ~CanLowerQuality(q)

\* Where a return of the tuner leads.
AfterTune == IF caller = "main" THEN "preview" ELSE "returned"

\* Start values around and between the bounds: whole steps and half steps, from
\* StartSlack steps below the floor to StartSlack steps above the ceiling.
StartQualities ==
    {q \in (QUALITY_MIN - StartSlack * QUALITY_STEP)..(QUALITY_MAX + StartSlack * QUALITY_STEP) :
        q % QUALITY_STEP \in {0, QUALITY_STEP \div 2}}

StartMaxDims ==
    {d \in (MAX_DIM_MIN - StartSlack * MAX_DIM_STEP)..(MAX_DIM_MAX + StartSlack * MAX_DIM_STEP) :
        d % MAX_DIM_STEP \in {0, MAX_DIM_STEP \div 2}}

\* Targets: one no estimate meets, one only the empty sequence's estimate
\* meets (with equality), and the configured 20 MiB.
TargetValues == {0, DOCX_OVERHEAD_BYTES, TARGET_DOCX_SIZE_BYTES}

InitTune ==
    /\ pc = "tune"
    /\ caller = "none"
    /\ image_paths \in EqualPathLists(MaxTuneImages)
    /\ start_quality \in StartQualities
    /\ start_max_dim \in StartMaxDims
    /\ target_bytes \in TargetValues
    /\ quality = 0 /\ max_dim = 0
    /\ est = 0
    /\ sample = <<>> /\ compressed_sizes = <<>> /\ encoded = <<>>
    /\ outcomes = <<>>
    /\ calls = <<>>
    /\ ret = <<>>
    /\ photos_for_report = <<>>
    /\ auto_tune = FALSE
    /\ chosen_quality = 0 /\ chosen_max_dim = 0 /\ estimated_bytes = 0
    /\ prepared = <<>> /\ todo = <<>>
    /\ FinishIdle
    /\ passed = {}
    /\ TextIdle
    /\ SortIdle
    /\ SelectIdle
    /\ MoveIdle

\* Lines 258-259: the start values clamped into their bounds.
TuneClamp ==
    /\ pc = "tune"
    /\ quality' = ClampQuality(start_quality)
    /\ max_dim' = ClampMaxDim(start_max_dim)
    /\ pc' = "loop"
    /\ UNCHANGED textVars
    /\ UNCHANGED sortVars
    /\ UNCHANGED moveVars
    /\ UNCHANGED selVars
    /\ UNCHANGED <<caller, image_paths, est, sample, compressed_sizes, encoded, outcomes,
                   calls, passed>>
    /\ UNCHANGED tunerVars
    /\ UNCHANGED mainVars

\* One iteration that ends at line 265: the estimate meets the target.
TuneReturnMet ==
    /\ pc = "loop"
    /\ \E enc \in EncoderRuns(image_paths) :
          /\ EstimatorCall(image_paths, quality, max_dim, enc)
          /\ TargetMet(EstimateDocxSizeBytes(image_paths, enc), target_bytes)
          /\ ret' = <<quality, max_dim, EstimateDocxSizeBytes(image_paths, enc)>>
    /\ pc' = AfterTune
    /\ UNCHANGED textVars
    /\ UNCHANGED sortVars
    /\ UNCHANGED moveVars
    /\ UNCHANGED selVars
    /\ UNCHANGED <<caller, image_paths, quality, max_dim>>
    /\ UNCHANGED <<start_quality, start_max_dim, target_bytes>>
    /\ UNCHANGED <<photos_for_report, auto_tune, prepared, todo, finishVars>>
    /\ IF caller = "main"
       THEN /\ chosen_quality' = quality
            /\ chosen_max_dim' = max_dim
            /\ estimated_bytes' = est'
       ELSE UNCHANGED <<chosen_quality, chosen_max_dim, estimated_bytes>>

\* One iteration that ends at line 269: the quality goes down a step.
TuneLowerQuality ==
    /\ pc = "loop"
    /\ \E enc \in EncoderRuns(image_paths) :
          /\ EstimatorCall(image_paths, quality, max_dim, enc)
          /\ ~TargetMet(EstimateDocxSizeBytes(image_paths, enc), target_bytes)
    /\ CanLowerQuality(quality)
    /\ quality' = LowerQuality(quality)
    /\ pc' = "loop"
    /\ UNCHANGED textVars
    /\ UNCHANGED sortVars
    /\ UNCHANGED moveVars
    /\ UNCHANGED selVars
    /\ UNCHANGED <<caller, image_paths, max_dim>>
    /\ UNCHANGED tunerVars
    /\ UNCHANGED mainVars

\* One iteration that ends at line 273: the dimension goes down a step.
TuneLowerMaxDim ==
    /\ pc = "loop"
    /\ \E enc \in EncoderRuns(image_paths) :
          /\ EstimatorCall(image_paths, quality, max_dim, enc)
          /\ ~TargetMet(EstimateDocxSizeBytes(image_paths, enc), target_bytes)
    /\ DimBranchReached(quality)
    /\ CanLowerMaxDim(max_dim)
    /\ max_dim' = LowerMaxDim(max_dim)
    /\ pc' = "loop"
    /\ UNCHANGED textVars
    /\ UNCHANGED sortVars
    /\ UNCHANGED moveVars
    /\ UNCHANGED selVars
    /\ UNCHANGED <<caller, image_paths, quality>>
    /\ UNCHANGED tunerVars
    /\ UNCHANGED mainVars

\* One iteration that ends at line 276: nothing can be lowered any further.
TuneReturnFloor ==
    /\ pc = "loop"
    /\ \E enc \in EncoderRuns(image_paths) :
          /\ EstimatorCall(image_paths, quality, max_dim, enc)
          /\ ~TargetMet(EstimateDocxSizeBytes(image_paths, enc), target_bytes)
          /\ ret' = <<quality, max_dim, EstimateDocxSizeBytes(image_paths, enc)>>
    /\ ~CanLowerQuality(quality)
    /\ ~CanLowerMaxDim(max_dim)
    /\ pc' = AfterTune
    /\ UNCHANGED textVars
    /\ UNCHANGED sortVars
    /\ UNCHANGED moveVars
    /\ UNCHANGED selVars
    /\ UNCHANGED <<caller, image_paths, quality, max_dim>>
    /\ UNCHANGED <<start_quality, start_max_dim, target_bytes>>
    /\ UNCHANGED <<photos_for_report, auto_tune, prepared, todo, finishVars>>
    /\ IF caller = "main"
       THEN /\ chosen_quality' = quality
            /\ chosen_max_dim' = max_dim
            /\ estimated_bytes' = est'
       ELSE UNCHANGED <<chosen_quality, chosen_max_dim, estimated_bytes>>

TuneStep ==
    \/ TuneClamp
    \/ TuneReturnMet
    \/ TuneLowerQuality
    \/ TuneLowerMaxDim
    \/ TuneReturnFloor

NextTune == TuneStep

SpecTune == InitTune /\ [][NextTune]_vars

---------------------------------------------------------------------------
(* main_orchestrator from line 497 on: the photos are selected, the         *)
(* compression setting is chosen, previewed and used to prepare the images. *)

\* askinteger without its minvalue and maxvalue: any integer may be entered.
ManualMaxDimAnswersUnchecked ==
    {<<>>} \cup {<<d>> : d \in {MAX_DIM_MIN - MAX_DIM_STEP, MAIN_START_MAX_DIM,
                                MAX_DIM_MAX + MAX_DIM_STEP}}

\* Lines 509-513: the dialog is cancelled (<<>>) or answers an integer between
\* its minvalue 1 and its maxvalue 100.
ManualQualityAnswers ==
    {<<>>} \cup {<<q>> : q \in MANUAL_QUALITY_LOW..MANUAL_QUALITY_HIGH}

\* Lines 514-518: cancelled, or an integer between MAX_DIM_MIN and MAX_DIM_MAX
\* (here: the whole and half steps of that range).
ManualMaxDimAnswers ==
    {<<>>} \cup {<<d>> : d \in {x \in MAX_DIM_MIN..MAX_DIM_MAX :
                                   x % MAX_DIM_STEP \in {0, MAX_DIM_STEP \div 2}}}

\* Lines 520-521: the start value stands in for a cancelled dialog.
AnswerOr(answer, default) == IF answer = <<>> THEN default ELSE answer[1]

\* Line 195: every prepared file is a JPEG named after the stem of its source.
PREPARED_SUFFIX == ".jpg"

\* File names for the photos: two of them share the stem.
PhotoNames ==
    <<[stem |-> <<"a">>, suffix |-> ".jpg"], [stem |-> <<"a">>, suffix |-> ".png"],
      [stem |-> <<"b">>, suffix |-> ".jpg"]>>

\* The images of paths under the names given, position by position.
Named(paths, names) ==
    [i \in DOMAIN paths |->
        [id |-> paths[i].id, size |-> paths[i].size,
         stem |-> names[((i - 1) % Len(names)) + 1].stem,
         suffix |-> names[((i - 1) % Len(names)) + 1].suffix]]

\* The file an image is.
SourceName(image) == [stem |-> image.stem, suffix |-> image.suffix]

\* Line 195: out_dir / f"{img_path.stem}.jpg".
PreparedPath(image) == [stem |-> image.stem, suffix |-> PREPARED_SUFFIX]

\* Line 493.
NothingSelected(photos) == photos = <<>>

\* The test of line 571 left out.
NothingPreparedUnchecked(paths) == FALSE

\* Line 571.
NothingPrepared(paths) == paths = <<>>

\* Line 362.
BuilderRaisesValueError(paths) == paths = <<>>

\* The directory removed as the last statement of the try block.
RemovedAtTheEndOnly(dir, how) == IF how = "saved" THEN "removed" ELSE dir

\* Lines 598-600: the finally clause removes the directory however the try
\* block was left.
AfterFinally(dir, how) == "removed"

\* How lines 576-596 can end: the document is saved and reported, or the
\* builder, the copying (when asked for) or the report raises.
DocumentOutcomes(paths, copies) ==
    IF BuilderRaisesValueError(paths) THEN {"ValueError"}
    ELSE {"saved", "create_raised", "report_raised"}
             \cup (IF copies THEN {"copy_raised"} ELSE {})

\* The orchestrator stands at line 493 with the selection made.
InitMain ==
    /\ pc = "ask_auto_tune"
    /\ caller = "main"
    /\ photos_for_report \in {Named(l, PhotoNames) : l \in EqualPathLists(MaxTuneImages)}
    /\ image_paths = <<>>
    /\ start_quality = 0 /\ start_max_dim = 0 /\ target_bytes = 0
    /\ quality = 0 /\ max_dim = 0
    /\ est = 0
    /\ sample = <<>> /\ compressed_sizes = <<>> /\ encoded = <<>>
    /\ outcomes = <<>>
    /\ calls = <<>>
    /\ ret = <<>>
    /\ auto_tune = FALSE
    /\ chosen_quality = 0 /\ chosen_max_dim = 0 /\ estimated_bytes = 0
    /\ prepared = <<>> /\ todo = <<>>
    /\ FinishIdle
    /\ passed = {}
    /\ TextIdle
    /\ SortIdle
    /\ SelectIdle
    /\ MoveIdle

\* Lines 493-495: no image was selected, and main_orchestrator returns.
MainNothingSelected ==
    /\ pc = "ask_auto_tune"
    /\ NothingSelected(photos_for_report)
    /\ pc' = "exit"
    /\ UNCHANGED <<docVars, textVars, sortVars, selVars, moveVars>>

\* Lines 500-506 and 523-529: the user asks for auto-tuning, and the tuner is
\* called with the start values 50 and 1400 and the 20 MiB target.
MainAutoTune ==
    /\ pc = "ask_auto_tune"
    /\ ~NothingSelected(photos_for_report)
    /\ auto_tune' = TRUE
    /\ image_paths' = photos_for_report
    /\ start_quality' = MAIN_START_QUALITY
    /\ start_max_dim' = MAIN_START_MAX_DIM
    /\ target_bytes' = TARGET_DOCX_SIZE_BYTES
    /\ pc' = "tune"
    /\ UNCHANGED textVars
    /\ UNCHANGED sortVars
    /\ UNCHANGED moveVars
    /\ UNCHANGED selVars
    /\ UNCHANGED <<caller, quality, max_dim, est, sample, compressed_sizes,
                   encoded, outcomes, calls, ret, passed>>
    /\ UNCHANGED <<photos_for_report, chosen_quality, chosen_max_dim,
                   estimated_bytes, prepared, todo, finishVars>>

\* Lines 500-522: the user declines auto-tuning, enters (or cancels) the two
\* values, and the estimator is called once with them.
MainManualEntry ==
    /\ pc = "ask_auto_tune"
    /\ ~NothingSelected(photos_for_report)
    /\ auto_tune' = FALSE
    /\ \E q \in ManualQualityAnswers, d \in ManualMaxDimAnswers :
          /\ chosen_quality' = AnswerOr(q, MAIN_START_QUALITY)
          /\ chosen_max_dim' = AnswerOr(d, MAIN_START_MAX_DIM)
          /\ \E enc \in EncoderRuns(photos_for_report) :
                EstimatorCall(photos_for_report, AnswerOr(q, MAIN_START_QUALITY),
                              AnswerOr(d, MAIN_START_MAX_DIM), enc)
    /\ estimated_bytes' = est'
    /\ pc' = "preview"
    /\ UNCHANGED textVars
    /\ UNCHANGED sortVars
    /\ UNCHANGED moveVars
    /\ UNCHANGED selVars
    /\ UNCHANGED <<caller, image_paths, quality, max_dim>>
    /\ UNCHANGED tunerVars
    /\ UNCHANGED <<photos_for_report, prepared, todo, finishVars>>

\* Lines 531-557: the preview encodes the largest photo with the chosen
\* setting, the user accepts it and answers whether the compressed images are
\* to be kept, the temporary directory is made and the prepare loop set up.
MainPreviewAccepted ==
    /\ pc = "preview"
    /\ passed' = passed \cup {Passed("encoder", chosen_quality, chosen_max_dim)}
    /\ also_save_compressed' \in BOOLEAN
    /\ temp_dir' = "created"
    /\ temp_files' = {}
    /\ todo' = photos_for_report
    /\ prepared' = <<>>
    /\ prepared_from' = <<>>
    /\ pc' = "prepare"
    /\ UNCHANGED textVars
    /\ UNCHANGED sortVars
    /\ UNCHANGED moveVars
    /\ UNCHANGED selVars
    /\ UNCHANGED <<caller, image_paths, quality, max_dim, est, sample,
                   compressed_sizes, encoded, outcomes, calls>>
    /\ UNCHANGED tunerVars
    /\ UNCHANGED <<photos_for_report, auto_tune, chosen_quality, chosen_max_dim,
                   estimated_bytes>>
    /\ UNCHANGED <<builder_calls, docx_written, compressed_saved, error>>

\* Lines 294-299 and 544-546: the preview cannot be encoded, or the user
\* cancels it; main_orchestrator returns without output.
MainPreviewDeclined ==
    /\ pc = "preview"
    /\ passed' = passed \cup {Passed("encoder", chosen_quality, chosen_max_dim)}
    /\ pc' = "exit"
    /\ UNCHANGED textVars
    /\ UNCHANGED sortVars
    /\ UNCHANGED moveVars
    /\ UNCHANGED selVars
    /\ UNCHANGED <<caller, image_paths, quality, max_dim, est, sample,
                   compressed_sizes, encoded, outcomes, calls>>
    /\ UNCHANGED tunerVars
    /\ UNCHANGED mainVars

\* Lines 559-569: one round of the prepare loop. write_prepared_jpeg_for_word
\* encodes the image with the chosen setting and writes the bytes to the file
\* named after the image's stem; an image that raises is skipped.
MainPrepareOne ==
    /\ pc = "prepare"
    /\ todo # <<>>
    /\ passed' = passed \cup {Passed("prepare", chosen_quality, chosen_max_dim),
                              Passed("encoder", chosen_quality, chosen_max_dim)}
    /\ \E outcome \in EncodeOutcomes :
          IF outcome = EncodeRaised
          THEN UNCHANGED <<prepared, prepared_from, temp_files>>
          ELSE /\ prepared' = Append(prepared, PreparedPath(Head(todo)))
               /\ prepared_from' = Append(prepared_from, SourceName(Head(todo)))
               /\ temp_files' = temp_files \cup {PreparedPath(Head(todo))}
    /\ todo' = Tail(todo)
    /\ pc' = "prepare"
    /\ UNCHANGED textVars
    /\ UNCHANGED sortVars
    /\ UNCHANGED moveVars
    /\ UNCHANGED selVars
    /\ UNCHANGED <<caller, image_paths, quality, max_dim, est, sample,
                   compressed_sizes, encoded, outcomes, calls>>
    /\ UNCHANGED tunerVars
    /\ UNCHANGED <<photos_for_report, auto_tune, chosen_quality, chosen_max_dim,
                   estimated_bytes>>
    /\ UNCHANGED <<also_save_compressed, temp_dir, builder_calls, docx_written,
                   compressed_saved, error>>

\* Lines 571-573 and 598-600: the loop is over and no image was prepared;
\* main_orchestrator returns through the finally clause.
MainNothingPrepared ==
    /\ pc = "prepare"
    /\ todo = <<>>
    /\ NothingPrepared(prepared)
    /\ temp_dir' = AfterFinally(temp_dir, "nothing_prepared")
    /\ temp_files' = (IF temp_dir' = "removed" THEN {} ELSE temp_files)
    /\ pc' = "exit"
    /\ UNCHANGED textVars
    /\ UNCHANGED sortVars
    /\ UNCHANGED moveVars
    /\ UNCHANGED selVars
    /\ UNCHANGED <<caller, image_paths, quality, max_dim, est, sample,
                   compressed_sizes, encoded, outcomes, calls, passed>>
    /\ UNCHANGED tunerVars
    /\ UNCHANGED <<photos_for_report, auto_tune, chosen_quality, chosen_max_dim,
                   estimated_bytes, prepared, todo>>
    /\ UNCHANGED <<also_save_compressed, prepared_from, builder_calls, docx_written,
                   compressed_saved, error>>

\* Lines 576-600: the document is built from the prepared images, the
\* compressed images are copied when asked for, and the result is reported; any
\* of the three may raise, and the finally clause runs in every case.
MainDocument ==
    /\ pc = "prepare"
    /\ todo = <<>>
    /\ ~NothingPrepared(prepared)
    /\ builder_calls' = Append(builder_calls, prepared)
    /\ \E how \in DocumentOutcomes(prepared, also_save_compressed) :
          /\ docx_written' = (how \notin {"ValueError", "create_raised"})
          /\ IF how = "copy_raised"
             THEN \E k \in 0..(Len(prepared) - 1) :
                      compressed_saved' = {prepared[i] : i \in 1..k}
             ELSE compressed_saved' =
                      (IF also_save_compressed /\ how \in {"saved", "report_raised"}
                       THEN {prepared[i] : i \in 1..Len(prepared)} ELSE {})
          /\ error' = (IF how = "saved" THEN "" ELSE how)
          /\ pc' = (IF how = "saved" THEN "exit" ELSE "raised")
          /\ temp_dir' = AfterFinally(temp_dir, how)
    /\ temp_files' = (IF temp_dir' = "removed" THEN {} ELSE temp_files)
    /\ UNCHANGED textVars
    /\ UNCHANGED sortVars
    /\ UNCHANGED moveVars
    /\ UNCHANGED selVars
    /\ UNCHANGED <<caller, image_paths, quality, max_dim, est, sample,
                   compressed_sizes, encoded, outcomes, calls, passed>>
    /\ UNCHANGED tunerVars
    /\ UNCHANGED <<photos_for_report, auto_tune, chosen_quality, chosen_max_dim,
                   estimated_bytes, prepared, todo>>
    /\ UNCHANGED <<also_save_compressed, prepared_from>>

MainStep ==
    \/ MainNothingSelected
    \/ MainAutoTune
    \/ MainManualEntry
    \/ MainPreviewAccepted
    \/ MainPreviewDeclined
    \/ MainPrepareOne
    \/ MainNothingPrepared
    \/ MainDocument

NextMain == MainStep \/ TuneStep

SpecMain == InitMain /\ [][NextMain]_vars

---------------------------------------------------------------------------
(* The orchestrator from the preview on, with several photos under any     *)
(* names: the settings are the start values of a manual entry with both    *)
(* dialogs cancelled, and the estimator call made there found no image it  *)
(* could encode.                                                           *)

MaxPrepared == 2

PhotoLists ==
    UNION {{Named(MkPaths([i \in 1..k |-> 1]), names) :
               names \in [1..k -> {PhotoNames[i] : i \in 1..Len(PhotoNames)}]} :
           k \in 1..MaxPrepared}

InitPrepare ==
    /\ pc = "preview"
    /\ caller = "main"
    /\ photos_for_report \in PhotoLists
    /\ image_paths = <<>>
    /\ start_quality = 0 /\ start_max_dim = 0 /\ target_bytes = 0
    /\ quality = 0 /\ max_dim = 0
    /\ sample = SampleOf(photos_for_report)
    /\ encoded = SampleOf(photos_for_report)
    /\ outcomes = [i \in 1..Len(sample) |-> EncodeRaised]
    /\ compressed_sizes = CompressedSizesOf(outcomes)
    /\ est = EstimateDocxSizeBytes(photos_for_report, outcomes)
    /\ calls = <<Setting(MAIN_START_QUALITY, MAIN_START_MAX_DIM)>>
    /\ ret = <<>>
    /\ auto_tune = FALSE
    /\ chosen_quality = MAIN_START_QUALITY
    /\ chosen_max_dim = MAIN_START_MAX_DIM
    /\ estimated_bytes = est
    /\ prepared = <<>> /\ todo = <<>>
    /\ FinishIdle
    /\ passed = {Passed("estimator", MAIN_START_QUALITY, MAIN_START_MAX_DIM),
                 Passed("encoder", MAIN_START_QUALITY, MAIN_START_MAX_DIM)}
    /\ TextIdle
    /\ SortIdle
    /\ SelectIdle
    /\ MoveIdle

NextPrepare ==
    \/ MainPreviewAccepted
    \/ MainPreviewDeclined
    \/ MainPrepareOne
    \/ MainNothingPrepared
    \/ MainDocument

SpecPrepare == InitPrepare /\ [][NextPrepare]_vars

---------------------------------------------------------------------------
(* Text.  A str is a sequence of characters; a character is a              *)
(* one-character string, or the name of its code point when it is outside  *)
(* ASCII.                                                                  *)

DIGITS == <<"0", "1", "2", "3", "4", "5", "6", "7", "8", "9">>

UPPERCASE == <<"A", "B", "C", "D", "E", "F", "G", "H", "I", "J", "K", "L", "M",
               "N", "O", "P", "Q", "R", "S", "T", "U", "V", "W", "X", "Y", "Z">>

LOWERCASE == <<"a", "b", "c", "d", "e", "f", "g", "h", "i", "j", "k", "l", "m",
               "n", "o", "p", "q", "r", "s", "t", "u", "v", "w", "x", "y", "z">>

\* LATIN CAPITAL LETTER I WITH DOT ABOVE: alphanumeric, and the one character
\* whose str.lower() is two characters, "i" and COMBINING DOT ABOVE (U+0307),
\* a mark that is not alphanumeric.
CAPITAL_I_DOT == "U+0130"

COMBINING_DOT == "U+0307"

\* SUPERSCRIPT TWO: str.isdigit and str.isalnum hold for it, \d does not match
\* it and int() does not accept it.
SUPERSCRIPT_TWO == "U+00B2"

Range(s) == {s[i] : i \in 1..Len(s)}

IndexIn(c, s) == CHOOSE i \in 1..Len(s) : s[i] = c

\* All strs of at most n characters drawn from chars.
Texts(chars, n) == UNION {[1..k -> chars] : k \in 0..n}

\* All lists of exactly the members of S, each once.
Orderings(S) ==
    {f \in [1..Cardinality(S) -> S] : \A i, j \in 1..Cardinality(S) : f[i] = f[j] => i = j}

isspace(c) == c = " "

isdigit(c) == c \in Range(DIGITS) \cup {SUPERSCRIPT_TWO}

\* str.isalnum of one character.
isalnum(c) ==
    c \in Range(DIGITS) \cup Range(UPPERCASE) \cup Range(LOWERCASE) \cup {CAPITAL_I_DOT, SUPERSCRIPT_TWO}

\* str.lower of one character: a str of one or two characters.
lower_char(c) ==
    IF c \in Range(UPPERCASE) THEN <<LOWERCASE[IndexIn(c, UPPERCASE)]>>
    ELSE IF c = CAPITAL_I_DOT THEN <<"i", COMBINING_DOT>>
    ELSE <<c>>

\* str.lower.
RECURSIVE lower(_)
lower(s) == IF s = <<>> THEN <<>> ELSE lower_char(Head(s)) \o lower(Tail(s))

\* str.split(): the maximal runs of characters that are not whitespace.
RECURSIVE split(_)
split(s) ==
    IF s = <<>> THEN <<>>
    ELSE IF isspace(Head(s)) THEN split(Tail(s))
    ELSE LET n == CHOOSE k \in 1..Len(s) :
                      /\ \A i \in 1..k : ~isspace(s[i])
                      /\ (k = Len(s) \/ isspace(s[k + 1]))
         IN  <<SubSeq(s, 1, n)>> \o split(SubSeq(s, n + 1, Len(s)))

\* s.split('-')[-1]: what follows the last hyphen, all of s when it has none.
LastHyphenPart(s) ==
    LET at == {i \in 1..Len(s) : s[i] = "-"}
    IN  IF at = {} THEN s
        ELSE SubSeq(s, (CHOOSE i \in at : \A j \in at : j <= i) + 1, Len(s))

RECURSIVE Zeros(_)
Zeros(n) == IF n <= 0 THEN <<>> ELSE <<"0">> \o Zeros(n - 1)

\* str.zfill(width): zeros on the left up to width, after a leading sign.
zfill(s, width) ==
    IF Len(s) >= width THEN s
    ELSE IF s # <<>> /\ Head(s) \in {"+", "-"}
         THEN <<Head(s)>> \o Zeros(width - Len(s)) \o Tail(s)
         ELSE Zeros(width - Len(s)) \o s

---------------------------------------------------------------------------
(* src/move_photos.py: normalize_photo_numbers.                            *)

ROLL_PREFIX == <<"1", "0", "0", "-">>

PAD_WIDTH == 4

\* Line 34, the element of the set comprehension for one entry.
NormalizeOne(num) == ROLL_PREFIX \o zfill(LastHyphenPart(num), PAD_WIDTH)

\* normalize_photo_numbers(photo_numbers), lines 24-36.
normalize_photo_numbers(numbers) ==
    IF numbers = <<>> THEN {}
    ELSE {NormalizeOne(numbers[i]) : i \in 1..Len(numbers)}

---------------------------------------------------------------------------
(* src/extract_photo_nrs.py: the loop of lines 45-56.                      *)

HYPHEN_AFTER == 3

\* Lines 53-55 with the hyphen put in from three characters on.
CleanTokenFromThree(nr) ==
    LET cleaned_nr == lower(SelectSeq(nr, isalnum))
    IN  IF Len(cleaned_nr) >= HYPHEN_AFTER
        THEN SubSeq(cleaned_nr, 1, HYPHEN_AFTER) \o <<"-">>
                 \o SubSeq(cleaned_nr, HYPHEN_AFTER + 1, Len(cleaned_nr))
        ELSE cleaned_nr

\* Lines 53-55: one token cleaned.
CleanToken(nr) ==
    LET cleaned_nr == lower(SelectSeq(nr, isalnum))
    IN  IF Len(cleaned_nr) > HYPHEN_AFTER
        THEN SubSeq(cleaned_nr, 1, HYPHEN_AFTER) \o <<"-">>
                 \o SubSeq(cleaned_nr, HYPHEN_AFTER + 1, Len(cleaned_nr))
        ELSE cleaned_nr

\* Lines 45-47: the tokens of every cell of the column, in order.
RECURSIVE TokensOf(_)
TokensOf(cells) ==
    IF cells = <<>> THEN <<>> ELSE split(Head(cells)) \o TokensOf(Tail(cells))

\* Lines 48-56: the list built from the tokens.
CleanAll(tokens) == [i \in 1..Len(tokens) |-> CleanToken(tokens[i])]

---------------------------------------------------------------------------
(* The two normalizations on their own: one call on any input, and one     *)
(* more on what the first returned.                                        *)

MaxTextLen == 5

EntryChars == {"7", "A", "-", "_", "+"}

CellChars == {"7", "A", "_", " ", CAPITAL_I_DOT}

NamedEntries ==
    {<<"1", "0", "0", "_", "0", "0", "0", "6">>, <<"1", "0", "0", "-", "7">>,
     <<"5", "6", "3", "6", "-", "3", "9">>}

NamedCells ==
    {<<"1", "0", "0", "_", "0", "0", "0", "6">>,
     <<"D", "S", "C", "N", "3", "8", "0", "1", " ", "a", "b">>}

PhotoNumberLists ==
    {<<>>} \cup {<<e>> : e \in Texts(EntryChars, MaxTextLen) \cup NamedEntries}
           \cup {<<e, f>> : e \in NamedEntries, f \in NamedEntries}

Columns ==
    {<<>>} \cup {<<c>> : c \in Texts(CellChars, MaxTextLen) \cup NamedCells}
           \cup {<<c, d>> : c \in NamedCells, d \in NamedCells}

\* The report builder has not run.
DocIdle ==
    /\ caller = "none"
    /\ image_paths = <<>>
    /\ quality = 0 /\ max_dim = 0
    /\ start_quality = 0 /\ start_max_dim = 0 /\ target_bytes = 0
    /\ est = 0
    /\ sample = <<>> /\ compressed_sizes = <<>> /\ encoded = <<>>
    /\ outcomes = <<>>
    /\ calls = <<>>
    /\ ret = <<>>
    /\ photos_for_report = <<>>
    /\ auto_tune = FALSE
    /\ chosen_quality = 0 /\ chosen_max_dim = 0 /\ estimated_bytes = 0
    /\ prepared = <<>> /\ todo = <<>>
    /\ FinishIdle
    /\ passed = {}

InitNorm ==
    /\ pc \in {"normalize", "extract"}
    /\ DocIdle
    /\ SortIdle
    /\ SelectIdle
    /\ MoveIdle
    /\ photo_numbers \in (IF pc = "normalize" THEN PhotoNumberLists ELSE {<<>>})
    /\ column \in (IF pc = "extract" THEN Columns ELSE {<<>>})
    /\ normalized_set = {}
    /\ photo_nrs = <<>>
    /\ all_photo_numbers = <<>>
    /\ applied = <<>>

\* normalize_photo_numbers(photo_numbers), lines 10-36.
NormalizeCall ==
    /\ pc = "normalize"
    /\ normalized_set' = normalize_photo_numbers(photo_numbers)
    /\ applied' = Append(applied, normalize_photo_numbers(photo_numbers))
    /\ pc' = "normalized"
    /\ UNCHANGED <<photo_numbers, column, photo_nrs, all_photo_numbers>>
    /\ UNCHANGED docVars
    /\ UNCHANGED sortVars
    /\ UNCHANGED moveVars
    /\ UNCHANGED selVars

\* The set the call returned, listed in some order, is the next call's input.
NormalizeOwnOutput ==
    /\ pc = "normalized"
    /\ Len(applied) < 2
    /\ photo_numbers' \in Orderings(normalized_set)
    /\ pc' = "normalize"
    /\ UNCHANGED <<normalized_set, column, photo_nrs, all_photo_numbers, applied>>
    /\ UNCHANGED docVars
    /\ UNCHANGED sortVars
    /\ UNCHANGED moveVars
    /\ UNCHANGED selVars

\* The loop of extract_photo_numbers over the column, lines 43-58.
ExtractCall ==
    /\ pc = "extract"
    /\ photo_nrs' = TokensOf(column)
    /\ all_photo_numbers' = CleanAll(TokensOf(column))
    /\ applied' = Append(applied, CleanAll(TokensOf(column)))
    /\ pc' = "extracted"
    /\ UNCHANGED <<photo_numbers, normalized_set, column>>
    /\ UNCHANGED docVars
    /\ UNCHANGED sortVars
    /\ UNCHANGED moveVars
    /\ UNCHANGED selVars

\* Lines 48-56 once more, with the entries of the list as the tokens.
CleanOwnOutput ==
    /\ pc = "extracted"
    /\ Len(applied) < 2
    /\ photo_nrs' = all_photo_numbers
    /\ all_photo_numbers' = CleanAll(all_photo_numbers)
    /\ applied' = Append(applied, CleanAll(all_photo_numbers))
    /\ pc' = "extracted"
    /\ UNCHANGED <<photo_numbers, normalized_set, column>>
    /\ UNCHANGED docVars
    /\ UNCHANGED sortVars
    /\ UNCHANGED moveVars
    /\ UNCHANGED selVars

NextNorm ==
    \/ NormalizeCall
    \/ NormalizeOwnOutput
    \/ ExtractCall
    \/ CleanOwnOutput

SpecNorm == InitNorm /\ [][NextNorm]_vars

---------------------------------------------------------------------------
(* src/main.py: natural_sort_key_string, and sorted() with it as the key.  *)

\* Characters in the order of their code points.
CODE_ORDER ==
    <<" ", "+", "-">> \o DIGITS \o UPPERCASE \o <<"_">> \o LOWERCASE
        \o <<SUPERSCRIPT_TWO, CAPITAL_I_DOT, COMBINING_DOT>>

ord(c) == IndexIn(c, CODE_ORDER)

\* What \d of line 115 matches: a decimal digit.
IsDecimal(c) == c \in Range(DIGITS)

\* str.isdigit of a str, line 116.
str_isdigit(p) == p # <<>> /\ \A i \in 1..Len(p) : isdigit(p[i])

\* str.strip(): the text without the whitespace at its two ends.
strip(s) ==
    LET ink == {i \in 1..Len(s) : ~isspace(s[i])}
    IN  IF ink = {} THEN <<>>
        ELSE SubSeq(s, CHOOSE i \in ink : \A j \in ink : i <= j,
                       CHOOSE i \in ink : \A j \in ink : j <= i)

\* re.split(r"\d+", s), the pattern without its group: the runs of decimal
\* digits are left out of the result.
RECURSIVE ReSplitWithoutGroup(_)
ReSplitWithoutGroup(s) ==
    LET at == {i \in 1..Len(s) : IsDecimal(s[i])}
    IN  IF at = {} THEN <<s>>
        ELSE LET first == CHOOSE i \in at : \A j \in at : i <= j
                 last == CHOOSE k \in first..Len(s) :
                             /\ \A i \in first..k : IsDecimal(s[i])
                             /\ (k = Len(s) \/ ~IsDecimal(s[k + 1]))
             IN  <<SubSeq(s, 1, first - 1)>>
                     \o ReSplitWithoutGroup(SubSeq(s, last + 1, Len(s)))

\* re.split(r"(\d+)", s): the text before the first run of decimal digits, the
\* run, and the split of what follows it; the text itself when it has no digit.
RECURSIVE re_split(_)
re_split(s) ==
    LET at == {i \in 1..Len(s) : IsDecimal(s[i])}
    IN  IF at = {} THEN <<s>>
        ELSE LET first == CHOOSE i \in at : \A j \in at : i <= j
                 last == CHOOSE k \in first..Len(s) :
                             /\ \A i \in first..k : IsDecimal(s[i])
                             /\ (k = Len(s) \/ ~IsDecimal(s[k + 1]))
             IN  <<SubSeq(s, 1, first - 1), SubSeq(s, first, last)>>
                     \o re_split(SubSeq(s, last + 1, Len(s)))

\* int(p) for a str of decimal digits.
RECURSIVE int(_)
int(p) ==
    IF p = <<>> THEN 0
    ELSE 10 * int(SubSeq(p, 1, Len(p) - 1)) + (IndexIn(p[Len(p)], DIGITS) - 1)

\* The elements of a key: an int or a str.
KeyInt(n) == [isint |-> TRUE, num |-> n, text |-> <<>>]

KeyStr(s) == [isint |-> FALSE, num |-> 0, text |-> s]

\* int(p) raised ValueError, and natural_sort_key_string with it.
KeyRaised == <<>>

\* int(p) raises on a str that isdigit accepts and that is not all decimal.
IntRaises(p) == str_isdigit(p) /\ \E i \in 1..Len(p) : ~IsDecimal(p[i])

\* Line 116 with every part kept as a str.
KeyOfStrsOnly(value) ==
    LET parts == re_split(strip(value))
    IN  IF \E i \in 1..Len(parts) : IntRaises(parts[i]) THEN KeyRaised
        ELSE [i \in 1..Len(parts) |-> KeyStr(parts[i])]

\* Line 116 with the empty parts of the split left out.
KeyWithoutEmptyParts(value) ==
    LET parts == SelectSeq(re_split(strip(value)), LAMBDA p : Len(p) > 0)
    IN  IF \E i \in 1..Len(parts) : IntRaises(parts[i]) THEN KeyRaised
        ELSE [i \in 1..Len(parts) |->
                 IF str_isdigit(parts[i]) THEN KeyInt(int(parts[i]))
                 ELSE KeyStr(parts[i])]

\* natural_sort_key_string(value), lines 113-116.
natural_sort_key_string(value) ==
    LET parts == re_split(strip(value))
    IN  IF \E i \in 1..Len(parts) : IntRaises(parts[i]) THEN KeyRaised
        ELSE [i \in 1..Len(parts) |->
                 IF str_isdigit(parts[i]) THEN KeyInt(int(parts[i]))
                 ELSE KeyStr(parts[i])]

\* a < b for two strs: by code point at the first difference, else by length.
StrLess(a, b) ==
    LET diff == {i \in 1..Min(Len(a), Len(b)) : a[i] # b[i]}
    IN  IF diff = {} THEN Len(a) < Len(b)
        ELSE LET i == CHOOSE d \in diff : \A e \in diff : d <= e
             IN  ord(a[i]) < ord(b[i])

\* The first place where two keys differ, 0 when one is a prefix of the other.
FirstDifference(k1, k2) ==
    LET diff == {i \in 1..Min(Len(k1), Len(k2)) : k1[i] # k2[i]}
    IN  IF diff = {} THEN 0 ELSE CHOOSE d \in diff : \A e \in diff : d <= e

\* Comparing two keys raises TypeError: they first differ at an int and a str.
KeyCompareRaises(k1, k2) ==
    LET i == FirstDifference(k1, k2)
    IN  i # 0 /\ k1[i].isint # k2[i].isint

\* k1 < k2 for two lists that can be compared.
KeyLess(k1, k2) ==
    LET i == FirstDifference(k1, k2)
    IN  IF i = 0 THEN Len(k1) < Len(k2)
        ELSE IF k1[i].isint THEN k1[i].num < k2[i].num
        ELSE StrLess(k1[i].text, k2[i].text)

\* The insertion losing x when an entry with an equal key is already there.
RECURSIVE InsertByKeyOncePerKey(_, _)
InsertByKeyOncePerKey(x, ordered) ==
    IF ordered = <<>> THEN <<x>>
    ELSE IF x.key = Head(ordered).key THEN ordered
    ELSE IF KeyLess(x.key, Head(ordered).key) THEN <<x>> \o ordered
    ELSE <<Head(ordered)>> \o InsertByKeyOncePerKey(x, Tail(ordered))

\* x put into a list ordered by key, after the entries that are not above it.
RECURSIVE InsertByKey(_, _)
InsertByKey(x, ordered) ==
    IF ordered = <<>> THEN <<x>>
    ELSE IF KeyLess(x.key, Head(ordered).key) THEN <<x>> \o ordered
    ELSE <<Head(ordered)>> \o InsertByKey(x, Tail(ordered))

RECURSIVE SortedFrom(_, _)
SortedFrom(items, ordered) ==
    IF items = <<>> THEN ordered
    ELSE SortedFrom(Tail(items), InsertByKey(Head(items), ordered))

\* sorted() raises: a key raised, or two keys cannot be compared.
SortRaises(keys) ==
    \/ \E i \in 1..Len(keys) : keys[i] = KeyRaised
    \/ \E i, j \in 1..Len(keys) : KeyCompareRaises(keys[i], keys[j])

\* sorted() leaving the items in their given order.
SortedByKeyAsGiven(items, keys) ==
    IF SortRaises(keys) THEN <<>> ELSE items

\* sorted(items, key=...): the items in ascending order of their keys, items
\* with equal keys in their given order; <<>> when it raises.
SortedByKey(items, keys) ==
    IF SortRaises(keys) THEN <<>>
    ELSE LET go == SortedFrom([i \in 1..Len(items) |->
                                   [item |-> items[i], key |-> keys[i]]], <<>>)
         IN  [i \in 1..Len(go) |-> go[i].item]

---------------------------------------------------------------------------
(* Sorting on its own: sorted(values, key=natural_sort_key_string) for any *)
(* list of strs.                                                           *)

MaxKeyLen == 4

MaxPairLen == 3

KeyChars == {"a", "0", "1", " ", SUPERSCRIPT_TWO}

PairChars == {"a", "1", "2"}

DSCN3801 == <<"D", "S", "C", "N", "3", "8", "0", "1">>

img10 == <<"i", "m", "g", "1", "0">>

img2 == <<"i", "m", "g", "2">>

ValueLists ==
    {<<v>> : v \in Texts(KeyChars, MaxKeyLen) \cup {DSCN3801}}
        \cup {<<v, w>> : v \in Texts(PairChars, MaxPairLen), w \in Texts(PairChars, MaxPairLen)}
        \cup {<<img10, img2>>, <<img2, img10>>}

InitSort ==
    /\ pc = "sort"
    /\ DocIdle
    /\ TextIdle
    /\ SelectIdle
    /\ MoveIdle
    /\ values \in ValueLists
    /\ sort_keys = <<>>
    /\ sorted_values = <<>>
    /\ sort_raised = FALSE

\* sorted(values, key=natural_sort_key_string), as lines 467-469 and 491 call it.
SortCall ==
    /\ pc = "sort"
    /\ sort_keys' = [i \in 1..Len(values) |-> natural_sort_key_string(values[i])]
    /\ sort_raised' = SortRaises(sort_keys')
    /\ sorted_values' = SortedByKey(values, sort_keys')
    /\ pc' = "sorted"
    /\ UNCHANGED values
    /\ UNCHANGED docVars
    /\ UNCHANGED textVars
    /\ UNCHANGED selVars
    /\ UNCHANGED moveVars

NextSort == SortCall

SpecSort == InitSort /\ [][NextSort]_vars

---------------------------------------------------------------------------
(* main_orchestrator, lines 438-495: which images go into the report, and  *)
(* in which order.  An image is a path: its stem and its suffix.           *)

Image(stem, suffix) == [stem |-> stem, suffix |-> suffix]

\* The lookup keeping the first image of the listing for each stem.
ImageByStemFirst(images, stem) ==
    LET at == {i \in 1..Len(images) : images[i].stem = stem}
    IN  IF at = {} THEN <<>>
        ELSE <<images[CHOOSE i \in at : \A j \in at : i <= j]>>

\* The lookup answering with every image that has the stem.
ImageByStemAll(images, stem) == SelectSeq(images, LAMBDA image : image.stem = stem)

\* The lookup taking an image whose stem starts with the one asked for.
ImageByStemPrefix(images, stem) ==
    LET at == {i \in 1..Len(images) :
                  /\ Len(images[i].stem) >= Len(stem)
                  /\ SubSeq(images[i].stem, 1, Len(stem)) = stem}
    IN  IF at = {} THEN <<>>
        ELSE <<images[CHOOSE i \in at : \A j \in at : j <= i]>>

\* image_by_stem.get(stem), lines 471 and 476: the dict keeps, for each stem,
\* the last image of the listing that has it; <<>> stands for None.
ImageByStem(images, stem) ==
    LET at == {i \in 1..Len(images) : images[i].stem = stem}
    IN  IF at = {} THEN <<>>
        ELSE <<images[CHOOSE i \in at : \A j \in at : j <= i]>>

\* Lines 474-478: the images found for the stems, in the order of the stems.
RECURSIVE Matches(_, _)
Matches(stems, images) ==
    IF stems = <<>> THEN <<>>
    ELSE ImageByStem(images, strip(Head(stems))) \o Matches(Tail(stems), images)

\* Lines 474-480: the stripped stems for which no image was found, in order.
RECURSIVE Missing(_, _)
Missing(stems, images) ==
    IF stems = <<>> THEN <<>>
    ELSE (IF ImageByStem(images, strip(Head(stems))) = <<>>
          THEN <<strip(Head(stems))>> ELSE <<>>) \o Missing(Tail(stems), images)

MaxFolder == 3

MaxRequired == 2

ONE == <<"1">>

TWO == <<"2">>

THREE == <<"3">>

FOUR == <<"4">>

TEN == <<"1", "0">>

SQUARED == <<SUPERSCRIPT_TWO>>

JPG == ".jpg"

PNG == ".png"

FolderImages ==
    {Image(ONE, JPG), Image(ONE, PNG), Image(TWO, JPG), Image(TEN, JPG),
     Image(SQUARED, JPG)}

RequiredEntries == {ONE, TWO, TEN, FOUR, SQUARED}

\* All lists of at most n distinct members of S.
ListsWithoutRepeats(S, n) ==
    UNION {{f \in [1..k -> S] : \A i, j \in 1..k : f[i] = f[j] => i = j} : k \in 0..n}

\* The folder listings: the files of a folder, each once, in any order.
Folders ==
    ListsWithoutRepeats(FolderImages, MaxFolder)
        \cup {<<Image(ONE, JPG), Image(TWO, JPG), Image(THREE, JPG)>>}

\* What get_photo_list_from_excel can return (lines 92-99): stripped cells
\* that are not empty, repeats included.
RequiredLists ==
    UNION {[1..k -> RequiredEntries] : k \in 0..MaxRequired}
        \cup {<<THREE, FOUR, ONE>>}

\* The state of the report builder, except the position and the selection.
docRestVars == <<caller, image_paths, start_quality, start_max_dim, target_bytes,
                 quality, max_dim, est, sample, compressed_sizes, encoded, outcomes,
                 calls, ret, auto_tune, chosen_quality, chosen_max_dim,
                 estimated_bytes, prepared, todo, finishVars, passed>>

InitSelect ==
    /\ pc = "select"
    /\ DocIdle
    /\ TextIdle
    /\ SortIdle
    /\ MoveIdle
    /\ all_images \in Folders
    /\ use_excel = FALSE
    /\ required_photo_list = <<>>
    /\ sort_numeric = FALSE
    /\ ordered_stems = <<>>
    /\ missing_stems = <<>>

\* Lines 443-445: no supported image in the folder.
SelectNoImages ==
    /\ pc = "select"
    /\ all_images = <<>>
    /\ pc' = "exit"
    /\ UNCHANGED <<photos_for_report, docRestVars, textVars, sortVars, selVars, moveVars>>

\* Lines 449-458: the Excel list is asked for and none comes back.
SelectNoList ==
    /\ pc = "select"
    /\ all_images # <<>>
    /\ use_excel' = TRUE
    /\ pc' = "exit"
    /\ UNCHANGED <<all_images, required_photo_list, sort_numeric, ordered_stems,
                   missing_stems>>
    /\ UNCHANGED <<photos_for_report, docRestVars, textVars, sortVars, moveVars>>

\* Lines 449-487 and 493-495: the images of the Excel list, in its order or
\* sorted, the entries without an image set aside.
SelectRequired ==
    /\ pc = "select"
    /\ all_images # <<>>
    /\ use_excel' = TRUE
    /\ \E required \in RequiredLists \ {<<>>}, numeric \in BOOLEAN :
          LET keys == [i \in 1..Len(required) |-> natural_sort_key_string(required[i])]
              raised == numeric /\ SortRaises(keys)
              stems == IF numeric THEN SortedByKey(required, keys) ELSE required
          IN  /\ required_photo_list' = required
              /\ sort_numeric' = numeric
              /\ values' = (IF numeric THEN required ELSE values)
              /\ sort_keys' = (IF numeric THEN keys ELSE sort_keys)
              /\ sorted_values' = (IF numeric THEN stems ELSE sorted_values)
              /\ sort_raised' = raised
              /\ ordered_stems' = (IF raised THEN <<>> ELSE stems)
              /\ photos_for_report' = (IF raised THEN <<>> ELSE Matches(stems, all_images))
              /\ missing_stems' = (IF raised THEN <<>> ELSE Missing(stems, all_images))
              /\ pc' = (IF raised THEN "raised"
                        ELSE IF Matches(stems, all_images) = <<>> THEN "exit"
                        ELSE "selected")
    /\ UNCHANGED all_images
    /\ UNCHANGED <<docRestVars, textVars, moveVars>>

\* Lines 449 and 489-495: every image of the folder, sorted by its stem.
SelectEverything ==
    /\ pc = "select"
    /\ all_images # <<>>
    /\ use_excel' = FALSE
    /\ LET keys == [i \in 1..Len(all_images) |->
                       natural_sort_key_string(all_images[i].stem)]
       IN  /\ values' = all_images
           /\ sort_keys' = keys
           /\ sort_raised' = SortRaises(keys)
           /\ sorted_values' = SortedByKey(all_images, keys)
           /\ photos_for_report' = SortedByKey(all_images, keys)
           /\ pc' = (IF SortRaises(keys) THEN "raised" ELSE "selected")
    /\ UNCHANGED <<all_images, required_photo_list, sort_numeric, ordered_stems,
                   missing_stems>>
    /\ UNCHANGED <<docRestVars, textVars, moveVars>>

NextSelect ==
    \/ SelectNoImages
    \/ SelectNoList
    \/ SelectRequired
    \/ SelectEverything

SpecSelect == InitSelect /\ [][NextSelect]_vars

---------------------------------------------------------------------------
(* src/move_photos.py: the cleanup script and move_files.                  *)

\* str.replace(old, new) for single characters.
replace(s, old, new) == [i \in 1..Len(s) |-> IF s[i] = old THEN new ELSE s[i]]

\* Line 119: the suffixes of the files the script takes for images.
IMAGE_SUFFIXES ==
    {<<".", "j", "p", "g">>, <<".", "j", "p", "e", "g">>, <<".", "p", "n", "g">>,
     <<".", "b", "m", "p">>}

\* Line 119, the test of the comprehension.
IsImageFile(p) == lower(p.suffix) \in IMAGE_SUFFIXES

\* Line 127.
NormalizedStem(image) == replace(lower(image.stem), "_", "-")

\* Lines 124-131 with the stem compared as it stands in the file name.
PhotosToMoveByRawStem(images, required) ==
    SelectSeq(images, LAMBDA image : image.stem \notin required)

\* Lines 124-131: the images whose normalized stem is not required, in the
\* order of the listing.
PhotosToMove(images, required) ==
    SelectSeq(images, LAMBDA image : NormalizedStem(image) \notin required)

\* Lines 73 and 86 without the count.
SkipNotCounted(count) == count

\* Lines 73 and 86.
SkipCounted(count) == count + 1

\* Line 83.
MoveCounted(count) == count + 1

MaxSource == 3

MaxMoveFiles == 3

\* The files of a source folder: three images and a text file.
MoveFiles ==
    {Image(<<"1", "0", "0", "_", "0", "0", "0", "7">>, <<".", "J", "P", "G">>),
     Image(<<"1", "0", "0", "_", "0", "0", "A", "7">>, <<".", "p", "n", "g">>),
     Image(<<"I", "M", "G", "_", "7">>, <<".", "j", "p", "g">>),
     Image(<<"1", "0", "0", "_", "0", "0", "0", "7">>, <<".", "t", "x", "t">>)}

\* Lists of photo numbers as line 100 holds one.
ReportLists ==
    {<<>>, <<<<"7">>>>, <<<<"a", "7">>>>, <<<<"A", "7">>>>,
     <<<<"7">>, <<"a", "7">>>>,
     <<<<"5", "6", "3", "6", "-", "3", "9">>, <<"1", "0", "0", "-", "7">>>>}

\* The script is started on a folder, or move_files is called on its own with
\* any list of files, of which any may be missing from the folder.
InitMove ==
    /\ pc \in {"script", "move_files"}
    /\ DocIdle
    /\ TextIdle
    /\ SortIdle
    /\ SelectIdle
    /\ report_photo_list \in (IF pc = "script" THEN ReportLists ELSE {<<>>})
    /\ required_photo_set = {}
    /\ in_source \in (IF pc = "script"
                      THEN {S \in SUBSET MoveFiles : Cardinality(S) <= MaxSource}
                      ELSE SUBSET MoveFiles)
    /\ in_output = {}
    /\ photos_to_move = <<>>
    /\ file_paths \in (IF pc = "script" THEN {<<>>}
                       ELSE UNION {[1..k -> MoveFiles] : k \in 0..MaxMoveFiles})
    /\ next_file = 0
    /\ moved_count = 0
    /\ skipped_count = 0
    /\ attempted = <<>>
    /\ move_result = ""

\* Line 103.
MoveNormalize ==
    /\ pc = "script"
    /\ required_photo_set' = normalize_photo_numbers(report_photo_list)
    /\ pc' = "ask_folder"
    /\ UNCHANGED <<report_photo_list, in_source, in_output, photos_to_move, file_paths,
                   next_file, moved_count, skipped_count, attempted, move_result>>
    /\ UNCHANGED <<docVars, textVars, sortVars, selVars>>

\* Lines 109-113: the folder dialog is cancelled.
MoveNoFolder ==
    /\ pc = "ask_folder"
    /\ pc' = "move_done"
    /\ UNCHANGED <<docVars, textVars, sortVars, selVars, moveVars>>

\* Lines 115-136, up to the call of move_files: the images of the folder are
\* listed, in the order the file system gives them, and those to move chosen.
MoveSchedule ==
    /\ pc = "ask_folder"
    /\ \E listing \in Orderings({p \in in_source : IsImageFile(p)}) :
          /\ all_images' = listing
          /\ photos_to_move' = PhotosToMove(listing, required_photo_set)
          /\ file_paths' = PhotosToMove(listing, required_photo_set)
    /\ pc' = "move_files"
    /\ UNCHANGED <<report_photo_list, required_photo_set, in_source, in_output,
                   next_file, moved_count, skipped_count, attempted, move_result>>
    /\ UNCHANGED <<use_excel, required_photo_list, sort_numeric, ordered_stems,
                   missing_stems>>
    /\ UNCHANGED <<docVars, textVars, sortVars>>

\* Lines 52-54: nothing to move.
MoveFilesEmpty ==
    /\ pc = "move_files"
    /\ file_paths = <<>>
    /\ move_result' = "empty"
    /\ pc' = "move_done"
    /\ UNCHANGED <<report_photo_list, required_photo_set, in_source, in_output,
                   photos_to_move, file_paths, next_file, moved_count, skipped_count,
                   attempted>>
    /\ UNCHANGED <<docVars, textVars, sortVars, selVars>>

\* Lines 58-63: the output directory cannot be created.
MoveFilesNoDirectory ==
    /\ pc = "move_files"
    /\ file_paths # <<>>
    /\ move_result' = "no_directory"
    /\ pc' = "move_done"
    /\ UNCHANGED <<report_photo_list, required_photo_set, in_source, in_output,
                   photos_to_move, file_paths, next_file, moved_count, skipped_count,
                   attempted>>
    /\ UNCHANGED <<docVars, textVars, sortVars, selVars>>

\* Lines 58-67: the output directory is there, the counters start at zero.
MoveFilesStart ==
    /\ pc = "move_files"
    /\ file_paths # <<>>
    /\ moved_count' = 0
    /\ skipped_count' = 0
    /\ next_file' = 1
    /\ pc' = "move_loop"
    /\ UNCHANGED <<report_photo_list, required_photo_set, in_source, in_output,
                   photos_to_move, file_paths, attempted, move_result>>
    /\ UNCHANGED <<docVars, textVars, sortVars, selVars>>

\* Lines 68-74: the file is not in the folder (any more).
MoveOneMissing ==
    /\ pc = "move_loop"
    /\ next_file <= Len(file_paths)
    /\ file_paths[next_file] \notin in_source
    /\ skipped_count' = SkipCounted(skipped_count)
    /\ attempted' = Append(attempted, file_paths[next_file])
    /\ next_file' = next_file + 1
    /\ pc' = "move_loop"
    /\ UNCHANGED <<report_photo_list, required_photo_set, in_source, in_output,
                   photos_to_move, file_paths, moved_count, move_result>>
    /\ UNCHANGED <<docVars, textVars, sortVars, selVars>>

\* Lines 68-83: the file is moved.
MoveOneMoved ==
    /\ pc = "move_loop"
    /\ next_file <= Len(file_paths)
    /\ file_paths[next_file] \in in_source
    /\ in_source' = in_source \ {file_paths[next_file]}
    /\ in_output' = in_output \cup {file_paths[next_file]}
    /\ moved_count' = MoveCounted(moved_count)
    /\ attempted' = Append(attempted, file_paths[next_file])
    /\ next_file' = next_file + 1
    /\ pc' = "move_loop"
    /\ UNCHANGED <<report_photo_list, required_photo_set, photos_to_move, file_paths,
                   skipped_count, move_result>>
    /\ UNCHANGED <<docVars, textVars, sortVars, selVars>>

\* Lines 68-86: shutil.move raises and the file stays where it is.
MoveOneFailed ==
    /\ pc = "move_loop"
    /\ next_file <= Len(file_paths)
    /\ file_paths[next_file] \in in_source
    /\ skipped_count' = SkipCounted(skipped_count)
    /\ attempted' = Append(attempted, file_paths[next_file])
    /\ next_file' = next_file + 1
    /\ pc' = "move_loop"
    /\ UNCHANGED <<report_photo_list, required_photo_set, in_source, in_output,
                   photos_to_move, file_paths, moved_count, move_result>>
    /\ UNCHANGED <<docVars, textVars, sortVars, selVars>>

\* Lines 88-92: the loop is over and the summary printed.
MoveFilesSummary ==
    /\ pc = "move_loop"
    /\ next_file > Len(file_paths)
    /\ move_result' = "summary"
    /\ pc' = "move_done"
    /\ UNCHANGED <<report_photo_list, required_photo_set, in_source, in_output,
                   photos_to_move, file_paths, next_file, moved_count, skipped_count,
                   attempted>>
    /\ UNCHANGED <<docVars, textVars, sortVars, selVars>>

NextMove ==
    \/ MoveNormalize
    \/ MoveNoFolder
    \/ MoveSchedule
    \/ MoveFilesEmpty
    \/ MoveFilesNoDirectory
    \/ MoveFilesStart
    \/ MoveOneMissing
    \/ MoveOneMoved
    \/ MoveOneFailed
    \/ MoveFilesSummary

SpecMove == InitMove /\ [][NextMove]_vars

---------------------------------------------------------------------------
(* Properties of the auto-tuner, checked under SpecTune.                   *)

Returned == pc = "returned"

\* v brought into lo..hi, written out for the properties.
Within(lo, hi, v) == IF v < lo THEN lo ELSE IF v > hi THEN hi ELSE v

StartQualityClamped == Within(QUALITY_MIN, QUALITY_MAX, start_quality)

StartMaxDimClamped == Within(MAX_DIM_MIN, MAX_DIM_MAX, start_max_dim)

\* C1: whatever the start values, the target and the estimates, the returned
\* quality lies in [QUALITY_MIN, QUALITY_MAX] and the returned max_dim in
\* [MAX_DIM_MIN, MAX_DIM_MAX], also when the target was not reached.
C1_ReturnWithinBounds ==
    ret # <<>> =>
        /\ ret[1] \in QUALITY_MIN..QUALITY_MAX
        /\ ret[2] \in MAX_DIM_MIN..MAX_DIM_MAX

\* C1's case: a start quality below the floor, and a return with the target missed.
C1_Witness ==
    /\ Returned
    /\ start_quality < QUALITY_MIN
    /\ start_max_dim > MAX_DIM_MAX
    /\ ret[3] > target_bytes

\* C2 as stated: the number of estimator calls of a finished run is at most
\* (start_quality - QUALITY_MIN) / QUALITY_STEP
\*   + (start_max_dim - MAX_DIM_MIN) / MAX_DIM_STEP + 1,
\* with the start values as passed (the inequality is multiplied by both steps,
\* so that it reads the same for exact and for integer division).
C2_BoundFromRawStart ==
    Returned =>
        Len(calls) * QUALITY_STEP * MAX_DIM_STEP
            <= (start_quality - QUALITY_MIN) * MAX_DIM_STEP
               + (start_max_dim - MAX_DIM_MIN) * QUALITY_STEP
               + QUALITY_STEP * MAX_DIM_STEP

\* C2 amended: the number of estimator calls is at most
\* (q0 - QUALITY_MIN) div QUALITY_STEP + (d0 - MAX_DIM_MIN) div MAX_DIM_STEP + 1,
\* where q0 and d0 are the start values clamped into their bounds; the run has
\* returned by then, since every iteration that does not return makes one call.
C2_BoundFromClampedStart ==
    /\ Len(calls) <= (StartQualityClamped - QUALITY_MIN) \div QUALITY_STEP
                     + (StartMaxDimClamped - MAX_DIM_MIN) \div MAX_DIM_STEP + 1
    /\ (pc = "loop" =>
          Len(calls) <= (StartQualityClamped - QUALITY_MIN) \div QUALITY_STEP
                        + (StartMaxDimClamped - MAX_DIM_MIN) \div MAX_DIM_STEP)

\* C2's case: a run from a start quality below the floor that used up the bound.
C2_Witness ==
    /\ Returned
    /\ start_quality < QUALITY_MIN
    /\ Len(calls) = (StartQualityClamped - QUALITY_MIN) \div QUALITY_STEP
                    + (StartMaxDimClamped - MAX_DIM_MIN) \div MAX_DIM_STEP + 1
    /\ Len(calls) > 1

\* C3 as stated: a return with the estimate above the target returns exactly
\* quality = QUALITY_MIN and max_dim = MAX_DIM_MIN.
C3_ReturnsExactFloors ==
    (Returned /\ ret[3] > target_bytes) =>
        (ret[1] = QUALITY_MIN /\ ret[2] = MAX_DIM_MIN)

\* C3 amended: a return with the estimate above the target returns settings
\* less than one step above the floors, the floors themselves when the clamped
\* start values lie a whole number of steps above them, and the estimate that
\* is above the target.
C3_ReturnsLowestReachable ==
    (Returned /\ ret[3] > target_bytes) =>
        /\ QUALITY_MIN <= ret[1] /\ ret[1] < QUALITY_MIN + QUALITY_STEP
        /\ MAX_DIM_MIN <= ret[2] /\ ret[2] < MAX_DIM_MIN + MAX_DIM_STEP
        /\ ((StartQualityClamped - QUALITY_MIN) % QUALITY_STEP = 0 => ret[1] = QUALITY_MIN)
        /\ ((StartMaxDimClamped - MAX_DIM_MIN) % MAX_DIM_STEP = 0 => ret[2] = MAX_DIM_MIN)
        /\ ret[3] = est

\* C3's case: the tuner went down both axes and gave up at the floors.
C3_Witness ==
    /\ Returned
    /\ ret[3] > target_bytes
    /\ ret[1] = QUALITY_MIN /\ ret[2] = MAX_DIM_MIN
    /\ start_quality > QUALITY_MIN /\ start_max_dim > MAX_DIM_MIN

\* C4 as stated: when the first estimate is at or below the target, the tuner
\* has returned after that one call with exactly the start values it was given.
C4_ReturnsRawStart ==
    (Len(calls) = 1 /\ est <= target_bytes) =>
        (Returned /\ ret = <<start_quality, start_max_dim, est>>)

\* C4 amended: when the first estimate is at or below the target, the tuner
\* has returned after that one call with the start values clamped into their
\* bounds (the values given, when those lie within the bounds).
C4_ReturnsClampedStart ==
    (Len(calls) = 1 /\ est <= target_bytes) =>
        (Returned /\ ret = <<StartQualityClamped, StartMaxDimClamped, est>>)

\* C4's case: a start quality above the ceiling and a first estimate equal to
\* the target.
C4_Witness ==
    /\ Returned
    /\ Len(calls) = 1
    /\ est = target_bytes
    /\ start_quality > QUALITY_MAX
    /\ ret[1] = QUALITY_MAX

\* C5: each estimator call of a run uses a quality and a max_dim that are at
\* most those of the call before it.
C5_DescentIsMonotonic ==
    \A i \in 1..(Len(calls) - 1) :
        /\ calls[i + 1].quality <= calls[i].quality
        /\ calls[i + 1].max_dim <= calls[i].max_dim

\* C5's case: a run that lowered the quality and then the dimension.
C5_Witness ==
    /\ Len(calls) >= 3
    /\ calls[2].quality < calls[1].quality
    /\ calls[Len(calls)].max_dim < calls[1].max_dim

\* C6 as stated: max_dim goes down only from a call made with the quality
\* exactly at QUALITY_MIN.
C6_DimOnlyAtQualityMin ==
    \A i \in 1..(Len(calls) - 1) :
        calls[i + 1].max_dim < calls[i].max_dim => calls[i].quality = QUALITY_MIN

\* C6 amended: max_dim goes down only when the quality cannot go down another
\* whole step (quality - QUALITY_STEP < QUALITY_MIN), so every decrease of the
\* quality comes before every decrease of max_dim, and the quality stays the
\* same from the first decrease of max_dim on.
C6_QualityBeforeDim ==
    \A i \in 1..(Len(calls) - 1) :
        calls[i + 1].max_dim < calls[i].max_dim =>
            /\ calls[i].quality - QUALITY_STEP < QUALITY_MIN
            /\ \A j \in i..Len(calls) : calls[j].quality = calls[i].quality

\* C6's case: the quality went down, then max_dim went down twice.
C6_Witness ==
    /\ Len(calls) >= 4
    /\ calls[2].quality < calls[1].quality
    /\ calls[Len(calls)].max_dim < calls[Len(calls) - 1].max_dim
    /\ calls[Len(calls) - 1].max_dim < calls[Len(calls) - 2].max_dim

\* C25: the estimate a run returns is the estimator's result of its last call,
\* which was made with exactly the returned quality and max_dim; and an estimate
\* above the target is returned only when neither a quality step nor a max_dim
\* step is left from the returned settings.
C25_ReturnedEstimateIsForReturnedSettings ==
    Returned =>
        /\ calls # <<>>
        /\ calls[Len(calls)] = Setting(ret[1], ret[2])
        /\ ret[3] = est
        /\ (ret[3] > target_bytes =>
              /\ ret[1] - QUALITY_STEP < QUALITY_MIN
              /\ ret[2] - MAX_DIM_STEP < MAX_DIM_MIN)

\* C25's case: a run that went down both ladders and returned a missed target
\* from settings that are not the start ones.
C25_Witness ==
    /\ Returned
    /\ ret[3] > target_bytes
    /\ ret[1] < StartQualityClamped
    /\ ret[2] < StartMaxDimClamped
    /\ ret[1] > QUALITY_MIN

AllEncodesRaised == \A i \in DOMAIN outcomes : outcomes[i] = EncodeRaised

\* C26: with the configured target of 20 MiB and every sampled image failing to
\* encode in the first estimator call, the run is over after that one call: it
\* returns the clamped start settings and the fallback estimate of 11,500,000
\* bytes, which is not above the target.
C26_AllFailedReturnsAtOnce ==
    (/\ target_bytes = TARGET_DOCX_SIZE_BYTES
     /\ image_paths # <<>>
     /\ Len(calls) = 1
     /\ AllEncodesRaised)
    => /\ Returned
       /\ ret = <<StartQualityClamped, StartMaxDimClamped, 11500000>>
       /\ ret[3] <= target_bytes

\* C26's case: such a run, from start values outside both bounds.
C26_Witness ==
    /\ Returned
    /\ target_bytes = TARGET_DOCX_SIZE_BYTES
    /\ image_paths # <<>>
    /\ Len(calls) = 1
    /\ outcomes # <<>>
    /\ AllEncodesRaised
    /\ start_quality > QUALITY_MAX
    /\ start_max_dim < MAX_DIM_MIN

---------------------------------------------------------------------------
(* Properties of the orchestrator, checked under SpecMain.                 *)

\* C7 as stated: every setting handed to the estimator, the encoder or the
\* prepare step has its quality in [30, 90] and its max_dim in [800, 2400].
C7_AllSettingsWithinTunerBounds ==
    \A p \in passed :
        /\ p.quality \in QUALITY_MIN..QUALITY_MAX
        /\ p.max_dim \in MAX_DIM_MIN..MAX_DIM_MAX

\* C7 amended: every setting handed on has its max_dim in [800, 2400]; its
\* quality lies in [30, 90] in auto-tune mode and in [1, 100], the range the
\* quality dialog accepts, in manual-entry mode.
C7_SettingsWithinModeBounds ==
    \A p \in passed :
        /\ p.max_dim \in MAX_DIM_MIN..MAX_DIM_MAX
        /\ (auto_tune => p.quality \in QUALITY_MIN..QUALITY_MAX)
        /\ (~auto_tune => p.quality \in MANUAL_QUALITY_LOW..MANUAL_QUALITY_HIGH)

\* C7's case: a manual quality above the tuner's ceiling reached the estimator,
\* the encoder and the prepare step.
C7_Witness ==
    /\ ~auto_tune
    /\ \A to \in {"estimator", "encoder", "prepare"} :
          Passed(to, MANUAL_QUALITY_HIGH, MAX_DIM_MAX) \in passed

---------------------------------------------------------------------------
(* Properties of the prepare loop and the cleanup, checked under           *)
(* SpecPrepare.                                                            *)

\* main_orchestrator is over: it returned or it raised.
Exited == pc \in {"exit", "raised"}

\* C22: once the temporary directory has been made, main_orchestrator does not
\* exit with the directory still there, whether it returns normally, returns
\* because no image could be prepared, or raises from the document creation,
\* the copying or the reporting.
C22_TempDirRemovedBeforeExit ==
    /\ (Exited => temp_dir # "created" /\ temp_files = {})
    /\ (temp_dir = "created" => pc = "prepare")
    /\ (Exited /\ (prepared # <<>> \/ builder_calls # <<>> \/ error # "")
          => temp_dir = "removed")

\* C22's case: the copying of the compressed images raised after the document
\* had been saved, and the directory is gone.
C22_Witness ==
    /\ pc = "raised"
    /\ error = "copy_raised"
    /\ docx_written
    /\ Len(prepared) = 2
    /\ temp_dir = "removed"

\* C29: images of the selection that are different files are written to
\* different prepared files, so the prepared list holds one file of its own for
\* each source image that was prepared, also when two sources have the same
\* stem and different extensions.
C29_DistinctSourcesGetDistinctFiles ==
    /\ \A i \in DOMAIN prepared : \A j \in DOMAIN prepared :
          prepared_from[i] # prepared_from[j] => prepared[i] # prepared[j]
    /\ \A k \in DOMAIN builder_calls :
          Cardinality({builder_calls[k][i] : i \in DOMAIN builder_calls[k]})
              = Cardinality({prepared_from[i] : i \in DOMAIN prepared_from})

---------------------------------------------------------------------------
(* Properties of the estimator, checked under SpecEst.                     *)

Estimated == pc = "estimated"

\* C8: for an empty image sequence the estimate is exactly the overhead
\* constant, whatever the quality and max_dim, and the encoder is not called.
C8_EmptyIsOverhead ==
    (Estimated /\ image_paths = <<>>) =>
        /\ est = DOCX_OVERHEAD_BYTES
        /\ encoded = <<>>
        /\ \A p \in passed : p.to # "encoder"

\* C8's case: the estimator was called with no image.
C8_Witness ==
    /\ Estimated
    /\ image_paths = <<>>
    /\ quality = MANUAL_QUALITY_LOW
    /\ est = DOCX_OVERHEAD_BYTES

\* C9 as stated: when k >= 1 sampled images encoded, with lengths summing to
\* S, the estimate e for N images is exactly overhead + (S / k) * N, that is
\* (e - overhead) * k = S * N.
C9_ExactMeanTimesCount ==
    (Estimated /\ compressed_sizes # <<>>) =>
        (est - DOCX_OVERHEAD_BYTES) * Len(compressed_sizes)
            = SumSeq(compressed_sizes) * Len(image_paths)

\* C9 amended: the estimate is overhead + (S / k) * N cut down to a whole
\* number of bytes: e <= overhead + (S / k) * N <= e + 1, with N the number of
\* images passed in and k the number of sampled images that encoded.
C9_TruncatedMeanTimesCount ==
    (Estimated /\ compressed_sizes # <<>>) =>
        /\ (est - DOCX_OVERHEAD_BYTES) * Len(compressed_sizes)
              <= SumSeq(compressed_sizes) * Len(image_paths)
        /\ SumSeq(compressed_sizes) * Len(image_paths)
              <= (est - DOCX_OVERHEAD_BYTES + 1) * Len(compressed_sizes)

\* C9's case: more images than the sample holds, some sampled image failed,
\* and the mean times the count is not a whole number.
C9_Witness ==
    /\ Estimated
    /\ Len(image_paths) > Len(sample)
    /\ compressed_sizes # <<>>
    /\ Len(compressed_sizes) < Len(sample)
    /\ (SumSeq(compressed_sizes) * Len(image_paths)) % Len(compressed_sizes) # 0

\* The positions of image_paths whose image is in the sample.
SampledIds == {sample[i].id : i \in 1..Len(sample)}

\* C10: the sample has min(6, N) members, all different images of the
\* sequence, and no image outside it is strictly larger than one inside it.
C10_SampleIsLargest ==
    Estimated =>
        /\ Len(sample) = Min(ESTIMATE_SAMPLE_MAX, Len(image_paths))
        /\ Cardinality(SampledIds) = Len(sample)
        /\ \A i \in 1..Len(sample) :
              /\ sample[i].id \in 1..Len(image_paths)
              /\ sample[i] = image_paths[sample[i].id]
        /\ \A i \in 1..Len(image_paths) : \A j \in 1..Len(sample) :
              i \notin SampledIds => image_paths[i].size <= sample[j].size

\* C10's case: more images than the sample holds, the last of them larger
\* than the first, and taken into the sample ahead of it.
C10_Witness ==
    /\ Estimated
    /\ Len(image_paths) > ESTIMATE_SAMPLE_MAX
    /\ image_paths[Len(image_paths)].size > image_paths[1].size
    /\ Len(image_paths) \in SampledIds
    /\ 1 \notin SampledIds

\* The places of the sample whose encoder call returned.
EncodedOk == {i \in 1..Len(outcomes) : outcomes[i] # EncodeRaised}

\* The place in the sample of the k-th image that encoded.
NthEncodedOk(k) ==
    CHOOSE i \in EncodedOk : Cardinality({j \in EncodedOk : j <= i}) = k

RECURSIVE SumOver(_, _)
SumOver(f, S) ==
    IF S = {} THEN 0
    ELSE LET x == CHOOSE y \in S : TRUE IN f[x][1] + SumOver(f, S \ {x})

\* C11: every sampled image is handed to the encoder exactly once; the ones
\* that raise are left out of compressed_sizes, so they add neither a zero to
\* the sum nor a unit to the divisor of the mean, and the call still returns
\* an estimate, from the images that encoded when there is one.
C11_FailedImagesAreDropped ==
    (Estimated /\ image_paths # <<>>) =>
        /\ encoded = sample
        /\ Len(outcomes) = Len(sample)
        /\ Len(compressed_sizes) = Cardinality(EncodedOk)
        /\ \A k \in 1..Len(compressed_sizes) :
              compressed_sizes[k] = outcomes[NthEncodedOk(k)][1]
        /\ (EncodedOk # {} =>
              /\ (est - DOCX_OVERHEAD_BYTES) * Cardinality(EncodedOk)
                    <= SumOver(outcomes, EncodedOk) * Len(image_paths)
              /\ SumOver(outcomes, EncodedOk) * Len(image_paths)
                    <= (est - DOCX_OVERHEAD_BYTES + 1) * Cardinality(EncodedOk))

\* C11's case: the first sampled image raised, a later one encoded, and the
\* estimate was made from the ones that encoded.
C11_Witness ==
    /\ Estimated
    /\ Len(sample) >= 3
    /\ outcomes[1] = EncodeRaised
    /\ outcomes[2] # EncodeRaised
    /\ outcomes[3] = EncodeRaised
    /\ Len(compressed_sizes) = Len(sample) - 2
    /\ est > DOCX_OVERHEAD_BYTES

\* C12: when every sampled image raises, the estimate is the fallback
\* overhead + 10,000,000 = 11,500,000, whatever the images and the setting.
C12_AllFailedGivesFallback ==
    (Estimated /\ image_paths # <<>> /\ EncodedOk = {}) => est = 11500000

\* C12's case: more images than the sample holds, and all sampled ones raised.
C12_Witness ==
    /\ Estimated
    /\ Len(image_paths) > ESTIMATE_SAMPLE_MAX
    /\ Len(outcomes) = ESTIMATE_SAMPLE_MAX
    /\ EncodedOk = {}
    /\ quality = MANUAL_QUALITY_LOW

---------------------------------------------------------------------------
(* Properties of the two normalizations, checked under SpecNorm.           *)

\* What follows the last "_" or "-" of an entry, all of it when it has neither.
TrailingNumber(e) ==
    LET at == {i \in 1..Len(e) : e[i] \in {"_", "-"}}
    IN  IF at = {} THEN e
        ELSE SubSeq(e, (CHOOSE i \in at : \A j \in at : j <= i) + 1, Len(e))

\* C13: normalize_photo_numbers returns, for every raw entry, "100-" followed
\* by the entry's trailing number padded with zeros to 4 digits, where the
\* trailing number is what follows the last "_" or "-"; so "100_0006" and
\* "100-7" give {"100-0006", "100-0007"}.
C13_UnderscoreAndHyphenSeparate ==
    (pc = "normalized" /\ Len(applied) = 1) =>
        normalized_set = {ROLL_PREFIX \o zfill(TrailingNumber(photo_numbers[i]), 4) :
                              i \in 1..Len(photo_numbers)}

\* C14 as stated: on both paths a second normalization of what the first
\* returned gives the same result, for every input.
C14_NormalizationIsIdempotent ==
    Len(applied) = 2 => applied[2] = applied[1]

\* What does hold of the code: normalize_photo_numbers applied to the elements
\* of its own output returns the same set, and the per-token cleaning applied
\* to its own output returns that output when no token holds U+0130.
IdempotentWithoutDottedI ==
    (Len(applied) = 2 /\ \A i \in 1..Len(column) : CAPITAL_I_DOT \notin Range(column[i]))
        => applied[2] = applied[1]

\* Its case: a cell with an upper-case letter, a separator and more than
\* three alphanumeric characters was cleaned, and its result cleaned again.
IdempotentWithoutDottedI_Reached ==
    /\ pc = "extracted"
    /\ Len(applied) = 2
    /\ Len(column) = 1
    /\ {"A", "_"} \subseteq Range(column[1])
    /\ CAPITAL_I_DOT \notin Range(column[1])
    /\ Len(applied[1]) = 1
    /\ Len(applied[1][1]) = 5
    /\ applied[2] = applied[1]

NotHyphen(c) == c # "-"

---------------------------------------------------------------------------
(* Properties of the sort key, checked under SpecSort.                     *)

\* The maximal runs of decimal digits, as ints, and of other characters, as
\* strs, of a text, in order.
RECURSIVE Runs(_)
Runs(s) ==
    IF s = <<>> THEN <<>>
    ELSE LET d == IsDecimal(s[1])
             n == CHOOSE k \in 1..Len(s) :
                      /\ \A i \in 1..k : IsDecimal(s[i]) = d
                      /\ (k = Len(s) \/ IsDecimal(s[k + 1]) # d)
         IN  <<IF d THEN KeyInt(int(SubSeq(s, 1, n))) ELSE KeyStr(SubSeq(s, 1, n))>>
                 \o Runs(SubSeq(s, n + 1, Len(s)))

EmptyStr == KeyStr(<<>>)

NotEmptyStr(e) == e # EmptyStr

NumberedAfterPrefix(v, w, k) ==
    /\ k < Len(v) /\ k < Len(w)
    /\ SubSeq(v, 1, k) = SubSeq(w, 1, k)
    /\ \A i \in 1..k : ~isdigit(v[i])
    /\ \A i \in (k + 1)..Len(v) : IsDecimal(v[i])
    /\ \A i \in (k + 1)..Len(w) : IsDecimal(w[i])
    /\ int(SubSeq(v, k + 1, Len(v))) < int(SubSeq(w, k + 1, Len(w)))

\* C17: two names made of the same prefix without digits and two different
\* numbers are sorted with the smaller number first, whatever the numbers of
\* their digits and whichever came first; ["img10", "img2"] gives
\* ["img2", "img10"].
C17_NumbersCompareAsIntegers ==
    (pc = "sorted" /\ Len(values) = 2) =>
        \A k \in 0..Len(values[1]) :
            /\ NumberedAfterPrefix(values[1], values[2], k)
                  => ~sort_raised /\ sorted_values = <<values[1], values[2]>>
            /\ NumberedAfterPrefix(values[2], values[1], k)
                  => ~sort_raised /\ sorted_values = <<values[2], values[1]>>

\* C17's case: ["img10", "img2"] was sorted.
C17_Witness ==
    /\ pc = "sorted"
    /\ values = <<img10, img2>>
    /\ sorted_values = <<img2, img10>>

\* The keys natural_sort_key_string returned (it raised for the others).
KeysProduced == {i \in DOMAIN sort_keys : sort_keys[i] # KeyRaised}

---------------------------------------------------------------------------
(* Properties of the selection, checked under SpecSelect.                  *)

\* The Excel list was read and every entry looked up.
Matched == pc \in {"selected", "exit"} /\ use_excel /\ required_photo_list # <<>>

StemInFolder(s) == \E i \in 1..Len(all_images) : all_images[i].stem = s

StemNotInFolder(s) == ~StemInFolder(s)

StemsOf(images) == [i \in 1..Len(images) |-> images[i].stem]

\* The image the lookup holds for a stem: the last of the listing with it.
LastWithStem(s) ==
    all_images[CHOOSE i \in 1..Len(all_images) :
                   /\ all_images[i].stem = s
                   /\ \A j \in (i + 1)..Len(all_images) : all_images[j].stem # s]

\* C18 as stated: with the list in its own order, the selected images are
\* exactly the images whose stem is an entry of the list, in the order of the
\* list, and the unmatched entries are exactly the entries without an image,
\* in the order of the list.
C18_SelectsEveryImageOfAStem ==
    (Matched /\ ~sort_numeric) =>
        /\ {photos_for_report[i] : i \in 1..Len(photos_for_report)}
              = {all_images[i] : i \in {j \in 1..Len(all_images) :
                                           all_images[j].stem \in Range(required_photo_list)}}
        /\ StemsOf(photos_for_report) = SelectSeq(required_photo_list, StemInFolder)
        /\ missing_stems = SelectSeq(required_photo_list, StemNotInFolder)

\* C18: with the list in its own order, there is one selected image for each
\* entry that is the stem of an image, in the order of the list: the last
\* image of the folder listing with that stem; the unmatched entries are the
\* other entries, in the order of the list, and they do not stop the run.
C18_SelectsOneImagePerEntry ==
    (Matched /\ ~sort_numeric) =>
        LET hit == SelectSeq(required_photo_list, StemInFolder)
        IN  /\ Len(photos_for_report) = Len(hit)
            /\ \A i \in 1..Len(hit) : photos_for_report[i] = LastWithStem(hit[i])
            /\ missing_stems = SelectSeq(required_photo_list, StemNotInFolder)
            /\ (pc = "selected") = (hit # <<>>)

\* C18's case: stems 1, 2, 3 and the list 3, 4, 1 in its own order.
C18_Witness ==
    /\ pc = "selected"
    /\ ~sort_numeric
    /\ all_images = <<Image(ONE, JPG), Image(TWO, JPG), Image(THREE, JPG)>>
    /\ required_photo_list = <<THREE, FOUR, ONE>>
    /\ photos_for_report = <<Image(THREE, JPG), Image(ONE, JPG)>>
    /\ missing_stems = <<FOUR>>

Occurrences(x, seq) == Cardinality({i \in 1..Len(seq) : seq[i] = x})

\* The keys of a list of stems never go down.
InNaturalOrder(stems) ==
    \A i, j \in 1..Len(stems) :
        i < j => ~KeyLess(natural_sort_key_string(stems[j]),
                          natural_sort_key_string(stems[i]))

Selected == pc = "selected"

\* C21: an image stands twice in the selected sequence only if the required
\* list holds the same identifier, whitespace stripped, twice; so without a
\* required list, or with one that has no repeated identifier, no image is
\* selected twice.
C21_DuplicatesOnlyFromRepeatedEntries ==
    Selected =>
        \A i \in DOMAIN photos_for_report : \A j \in DOMAIN photos_for_report :
            (i < j /\ photos_for_report[i] = photos_for_report[j]) =>
                /\ use_excel
                /\ \E a \in DOMAIN required_photo_list :
                   \E b \in DOMAIN required_photo_list :
                      /\ a < b
                      /\ strip(required_photo_list[a]) = strip(required_photo_list[b])
                      /\ strip(required_photo_list[a]) = photos_for_report[i].stem

\* C21's case: the required list names 1 twice, the folder holds an image of
\* that stem, and the image is selected twice.
C21_Witness ==
    /\ Selected
    /\ use_excel
    /\ required_photo_list = <<ONE, ONE>>
    /\ Len(photos_for_report) = 2
    /\ photos_for_report[1] = photos_for_report[2]

\* C28: after the matching loop of required-list mode, the selected images and
\* the unmatched entries together are as many as the entries of the required
\* list, and every selected image is one of the available images.
C28_SelectedPlusMissingIsRequired ==
    Matched =>
        /\ Len(photos_for_report) + Len(missing_stems) = Len(required_photo_list)
        /\ \A i \in DOMAIN photos_for_report :
              \E k \in DOMAIN all_images : all_images[k] = photos_for_report[i]

\* C28's case: a sorted required list with an entry that has two images
\* in the folder and an entry that has none.
C28_Witness ==
    /\ Matched
    /\ sort_numeric
    /\ required_photo_list = <<FOUR, ONE>>
    /\ \E i \in DOMAIN all_images : \E j \in DOMAIN all_images :
          i # j /\ all_images[i].stem = ONE /\ all_images[j].stem = ONE
    /\ Len(photos_for_report) = 1
    /\ missing_stems = <<FOUR>>


---------------------------------------------------------------------------
(* Properties of the cleanup script, checked under SpecMove.               *)

\* move_files went through its loop and printed the summary.
Summarized == pc = "move_done" /\ move_result = "summary"

\* C24: move_files goes on after a file that is missing or fails to move: when
\* the output directory could be created, it attempts every file of a list that
\* is not empty exactly once, in the order of the list, and at the end
\* moved_count + skipped_count is the number of files given.
C24_EveryFileAttemptedAndCounted ==
    /\ (pc = "move_loop" =>
          /\ attempted = SubSeq(file_paths, 1, next_file - 1)
          /\ moved_count + skipped_count = Len(attempted))
    /\ (Summarized =>
          /\ file_paths # <<>>
          /\ attempted = file_paths
          /\ moved_count + skipped_count = Len(file_paths))
    /\ (pc = "move_done" /\ file_paths # <<>> /\ move_result # "no_directory"
          => Summarized)

\* C24's case: the first file is missing, the second fails to move, and the
\* third is moved all the same.
C24_Witness ==
    /\ Summarized
    /\ Len(file_paths) = 3
    /\ file_paths[1] \notin in_source
    /\ file_paths[1] \notin in_output
    /\ file_paths[2] \in in_source
    /\ file_paths[3] \in in_output
    /\ moved_count = 1
    /\ skipped_count = 2

\* The stem as the report names it: lower-cased, with "-" for "_".
StemAsInReport(image) ==
    LET l == lower(image.stem)
    IN  [i \in 1..Len(l) |-> IF l[i] = "_" THEN "-" ELSE l[i]]

\* C30: the script schedules an image for moving exactly if its stem,
\* lower-cased and with "_" replaced by "-", is not in the normalized required
\* set; an image whose normalized stem is in the set is never handed to
\* move_files and stays in the source folder.
C30_MovedIffNotRequired ==
    pc \in {"move_files", "move_loop", "move_done"} =>
        \A k \in DOMAIN all_images :
            /\ (\E i \in DOMAIN photos_to_move : photos_to_move[i] = all_images[k])
                   <=> StemAsInReport(all_images[k]) \notin required_photo_set
            /\ StemAsInReport(all_images[k]) \in required_photo_set =>
                   /\ \A i \in DOMAIN file_paths : file_paths[i] # all_images[k]
                   /\ \A i \in DOMAIN attempted : attempted[i] # all_images[k]
                   /\ all_images[k] \in in_source
                   /\ all_images[k] \notin in_output

\* C30's case: of two images one is required under its normalized stem and
\* stays, the other is not and was moved.
C30_Witness ==
    /\ Summarized
    /\ Len(all_images) = 2
    /\ \E k \in DOMAIN all_images :
          /\ StemAsInReport(all_images[k]) \in required_photo_set
          /\ all_images[k].stem \notin required_photo_set
          /\ all_images[k] \in in_source
    /\ \E k \in DOMAIN all_images :
          /\ StemAsInReport(all_images[k]) \notin required_photo_set
          /\ all_images[k] \in in_output

===========================================================================
